---- MODULE Spec2Model ----
(***************************************************************************)
(* Contract-IQ multi-provider orchestration layer                          *)
(* (apps/api/contract_iq/services/multi_ai_orchestrator.py with the        *)
(* provider clients gemini.py and openai_client.py).                       *)
(*                                                                         *)
(* Eight specifications:                                                   *)
(*   SpecTracker - the circuit-breaker methods of MultiAIOrchestrator      *)
(*                 (_is_provider_available, _record_success,               *)
(*                 _record_failure, get_provider_health_status) called in  *)
(*                 any order while the clock advances;                     *)
(*   Spec        - generate_guidance requests served one after another by  *)
(*                 one orchestrator, split at the provider calls (the only *)
(*                 points where the handler waits on the outside world);   *)
(*   SpecInterrupts - Spec with capability calls that can be interrupted   *)
(*                 while they wait (a timeout, an interrupt);              *)
(*   SpecApi     - the same requests arriving through routers/ai.py, each  *)
(*                 on the orchestrator its dependency builds;              *)
(*   SpecThreads - the circuit-breaker methods, and rounds of the request  *)
(*                 loop, run by two threads on one orchestrator,           *)
(*                 statement by statement;                                 *)
(*   SpecValidators - _validate_input, _validate_output and               *)
(*                 _sanitize_string called on a fresh orchestrator, on     *)
(*                 inputs drawn from sample sets, and called again on what *)
(*                 they returned;                                          *)
(*   SpecClient  - the fallback generator and the Gemini client with its   *)
(*                 cache called in any order, the client being rebuilt     *)
(*                 with caching enabled or disabled;                       *)
(*   SpecScheduler - start and stop of the alert scheduler                 *)
(*                 (services/alerts.py) called one after another while the *)
(*                 event loop runs the scheduler's loop task.              *)
(*                                                                         *)
(* Time is time.time() in whole seconds.  A text is a sequence of          *)
(* characters; " " stands for any whitespace character.  A confidence is   *)
(* kept in hundredths (0.55 is 55).                                        *)
(***************************************************************************)
EXTENDS Integers, Sequences, FiniteSets, TLC

\* ---------------------------------------------------------------- bounds
\* largest failure_count / success_count the model lets a record reach
MaxCount == 4
\* last clock value
MaxTime == 63
\* the clock advances by one of these amounts (30+30 = 60 is not past the
\* recovery timeout, 30+31 = 61 is)
TickSteps == {30, 31}
\* most scheduler loop tasks the model keeps track of at a time
MaxTasks == 3

\* ------------------------------------------------------ program constants
FAILURE_THRESHOLD == 3
SUCCESS_THRESHOLD == 2
RECOVERY_TIMEOUT == 60
MAX_LENGTH == 10000
\* Field(max_length=160) of NegotiationContext.topic
TOPIC_MAX_LENGTH == 160
\* confidence=0.55 of _build_stub_guidance, in hundredths
STUB_CONFIDENCE == 55
\* latency_ms or 5
STUB_LATENCY == 5
\* last_failure_time: float | None = None
None == -1

\* AIProvider
GEMINI == "gemini"
OPENAI == "openai"
STUB == "stub"
AIProvider == {GEMINI, OPENAI, STUB}

\* CircuitBreakerState
CLOSED == "closed"
OPEN == "open"
HALF_OPEN == "half_open"
CircuitBreakerState == {CLOSED, OPEN, HALF_OPEN}

\* ProviderHealth(provider=p): the defaults of the pydantic model
ProviderHealth(p) ==
    [provider |-> p, state |-> CLOSED, failure_count |-> 0,
     last_failure_time |-> None, success_count |-> 0]

\* the keys of self.provider_health built by __init__
TrackedProviders == {GEMINI, OPENAI}

\* the threads that call the breaker methods directly
Threads == {"t1", "t2"}
\* a thread outside any call
IdleThread == [op |-> "idle", provider |-> STUB, at |-> 0, tmp |-> 0]

\* a task id under which no task has been created
NoTask == [st |-> "none", cancel |-> FALSE, ev |-> None, result |-> "none"]

VARIABLES
    now,              \* time.time()
    provider_health,  \* self.provider_health: provider -> ProviderHealth
    last,             \* the operation that made the last step, with its result
    streakF,          \* per provider: recordFailure calls made on the fresh record, -1 once anything else changed it
    consecF,          \* per provider: failures recorded since the last recorded success (capped at MaxCount)
    hoSucc,           \* per provider: consecutive recordSuccess calls (capped at 2) the first of which found it HALF_OPEN
    pc,               \* position of the current generate_guidance call
    req,              \* its locals: validated context, prompt override, provider order, loop index
    calls,            \* providers whose capability this request has invoked, in order
    outcomes,         \* the _record_success and _record_failure calls this request has made, in order: <<provider, "success" or "failure">>
    interrupts,       \* what was recorded for the capability calls this request had interrupted: "nothing", "failure" or "success"
    touched,          \* providers whose health record this request has changed
    result,           \* what the last finished request returned or raised
    threads,          \* per thread calling the breaker methods directly: the call it is in and where
    cache,            \* gemini_client._cache: the entries [key, value] of the dict
    config,           \* gemini_client.config: [enable_cache]
    scheduler,        \* the AlertSchedulerService: config.enabled, _task (a task id or None), _stop_event (an event id) and the events that are set
    tasks,            \* per task id: the scheduler loop task created under it
    caller,           \* the coroutine calling start and stop: idle, or suspended in stop at `await self._task`
    stopped,          \* stop has returned and start has not been called since
    first             \* the calls of the fallback generator and of the Gemini client that were the first with their arguments: [op, args, ret]

trackerVars == <<now, provider_health, streakF, consecF, hoSucc>>
reqVars == <<pc, req, calls, outcomes, interrupts, touched, result>>
threadVars == <<threads>>
clientVars == <<cache, first, config>>
schedVars == <<scheduler, tasks, caller, stopped>>
vars == <<now, provider_health, last, streakF, consecF, hoSucc, pc, req, calls, outcomes, interrupts, touched, result, threads, cache, first, config, scheduler, tasks, caller, stopped>>

\* ------------------------------------------------------- circuit breaker
\* Python truthiness of `health.last_failure_time`
Truthy(t) == t # None /\ t # 0

\* variant: an OPEN record waits twice the recovery timeout
TimeoutExceededLate(h, t) ==
    Truthy(h.last_failure_time) /\ t - h.last_failure_time > 2 * RECOVERY_TIMEOUT

\* variant: the timeout test written with >= instead of >
TimeoutExceededAtEqual(h, t) ==
    Truthy(h.last_failure_time) /\ t - h.last_failure_time >= RECOVERY_TIMEOUT

\* `elapsed > self.RECOVERY_TIMEOUT` for an OPEN record
TimeoutExceeded(h, t) ==
    Truthy(h.last_failure_time) /\ t - h.last_failure_time > RECOVERY_TIMEOUT

\* variant: an OPEN record is reported available whatever time has passed
IsAvailableResultIgnoresTimeout(p, health, t) ==
    IF p = STUB THEN TRUE
    ELSE IF p \notin DOMAIN health THEN TRUE
    ELSE IF health[p].state = CLOSED THEN TRUE
    ELSE IF health[p].state = OPEN THEN Truthy(health[p].last_failure_time)
    ELSE TRUE

\* _is_provider_available: the value returned
IsAvailableResult(p, health, t) ==
    IF p = STUB THEN TRUE
    ELSE IF p \notin DOMAIN health THEN TRUE
    ELSE IF health[p].state = CLOSED THEN TRUE
    ELSE IF health[p].state = OPEN THEN TimeoutExceeded(health[p], t)
    ELSE TRUE

\* variant: the transition to HALF_OPEN also clears the failure count
IsAvailableHealthResetting(p, health, t) ==
    IF p = STUB \/ p \notin DOMAIN health THEN health
    ELSE IF health[p].state = OPEN /\ Truthy(health[p].last_failure_time)
            /\ t - health[p].last_failure_time > RECOVERY_TIMEOUT
         THEN [health EXCEPT ![p].state = HALF_OPEN, ![p].failure_count = 0]
         ELSE health

\* _is_provider_available: the health records it leaves
IsAvailableHealth(p, health, t) ==
    IF p = STUB \/ p \notin DOMAIN health THEN health
    ELSE IF health[p].state = OPEN /\ TimeoutExceeded(health[p], t)
         THEN [health EXCEPT ![p].state = HALF_OPEN]
         ELSE health

\* variant: the closing test written with > instead of >=
SuccessClosesLate(h) ==
    h.state = HALF_OPEN /\ h.success_count > SUCCESS_THRESHOLD

\* the HALF_OPEN -> CLOSED test of _record_success
SuccessCloses(h) ==
    h.state = HALF_OPEN /\ h.success_count >= SUCCESS_THRESHOLD

\* variant: a success does not reset the failure count
RecordSuccessHealthKeepsFailures(p, health) ==
    IF p = STUB \/ p \notin DOMAIN health THEN health
    ELSE LET h1 == [health[p] EXCEPT !.success_count = @ + 1]
         IN  [health EXCEPT ![p] = IF SuccessCloses(h1) THEN [h1 EXCEPT !.state = CLOSED] ELSE h1]

\* _record_success
RecordSuccessHealth(p, health) ==
    IF p = STUB \/ p \notin DOMAIN health THEN health
    ELSE LET h1 == [health[p] EXCEPT !.success_count = @ + 1, !.failure_count = 0]
         IN  [health EXCEPT ![p] = IF SuccessCloses(h1) THEN [h1 EXCEPT !.state = CLOSED] ELSE h1]

\* variant: the opening test written with > instead of >=
FailureOpensLate(h) == h.failure_count > FAILURE_THRESHOLD

\* the OPEN test of _record_failure
FailureOpens(h) == h.failure_count >= FAILURE_THRESHOLD

\* variant: no early return for the fallback identity, whose record is
\* created on its first failure
RecordFailureHealthTracksStub(p, health, t) ==
    LET known == IF p \in DOMAIN health THEN health
                 ELSE [q \in DOMAIN health \cup {p} |->
                          IF q = p THEN ProviderHealth(p) ELSE health[q]]
        h1 == [known[p] EXCEPT !.failure_count = @ + 1,
                               !.last_failure_time = t,
                               !.success_count = 0]
    IN  [known EXCEPT ![p] = IF FailureOpens(h1) THEN [h1 EXCEPT !.state = OPEN] ELSE h1]

\* _record_failure
RecordFailureHealth(p, health, t) ==
    IF p = STUB \/ p \notin DOMAIN health THEN health
    ELSE LET h1 == [health[p] EXCEPT !.failure_count = @ + 1,
                                     !.last_failure_time = t,
                                     !.success_count = 0]
         IN  [health EXCEPT ![p] = IF FailureOpens(h1) THEN [h1 EXCEPT !.state = OPEN] ELSE h1]

\* variant: providers whose breaker is closed are left out of the mapping
HealthStatusOpenOnly(health) ==
    [p \in {q \in DOMAIN health : health[q].state # CLOSED} |->
        [state |-> health[p].state,
         failure_count |-> health[p].failure_count,
         success_count |-> health[p].success_count]]

\* get_provider_health_status: the mapping returned
HealthStatus(health) ==
    [p \in DOMAIN health |->
        [state |-> health[p].state,
         failure_count |-> health[p].failure_count,
         success_count |-> health[p].success_count]]

\* the counters stay within the model's bound
CanCount(p) ==
    p \in TrackedProviders =>
        /\ provider_health[p].failure_count < MaxCount
        /\ provider_health[p].success_count < MaxCount

\* ------------------------------------------------ bookkeeping of the calls
AfterAvailable(p) ==
    /\ hoSucc' = IF p \in TrackedProviders /\ provider_health'[p] # provider_health[p]
                 THEN [hoSucc EXCEPT ![p] = 0] ELSE hoSucc
    /\ streakF' = IF p \in TrackedProviders /\ provider_health'[p] # provider_health[p]
                  THEN [streakF EXCEPT ![p] = -1] ELSE streakF
    /\ UNCHANGED consecF

AfterSuccess(p) ==
    IF p \in TrackedProviders
    THEN /\ streakF' = [streakF EXCEPT ![p] = -1]
         /\ consecF' = [consecF EXCEPT ![p] = 0]
         /\ hoSucc' = [hoSucc EXCEPT ![p] =
                IF @ >= 1 THEN (IF @ = 1 THEN 2 ELSE @)
                ELSE IF provider_health[p].state = HALF_OPEN THEN 1 ELSE 0]
    ELSE UNCHANGED <<streakF, consecF, hoSucc>>

AfterFailure(p) ==
    IF p \in TrackedProviders
    THEN /\ streakF' = [streakF EXCEPT ![p] = IF @ >= 0 THEN @ + 1 ELSE -1]
         /\ consecF' = [consecF EXCEPT ![p] = IF @ < MaxCount THEN @ + 1 ELSE @]
         /\ hoSucc' = [hoSucc EXCEPT ![p] = 0]
    ELSE UNCHANGED <<streakF, consecF, hoSucc>>

\* ------------------------------------------------------- tracker actions
\* the clock moves on
Tick ==
    \E d \in TickSteps :
        /\ now + d <= MaxTime
        /\ now' = now + d
        /\ last' = [op |-> "tick", provider |-> STUB, ret |-> d]
        /\ UNCHANGED <<provider_health, streakF, consecF, hoSucc>>
        /\ UNCHANGED reqVars
        /\ UNCHANGED threadVars
        /\ UNCHANGED clientVars
        /\ UNCHANGED schedVars

\* orchestrator._is_provider_available(p)
IsAvailable(p) ==
    /\ provider_health' = IsAvailableHealth(p, provider_health, now)
    /\ last' = [op |-> "isAvailable", provider |-> p,
                ret |-> IsAvailableResult(p, provider_health, now)]
    /\ AfterAvailable(p)
    /\ UNCHANGED now
    /\ UNCHANGED reqVars
    /\ UNCHANGED threadVars
    /\ UNCHANGED clientVars
    /\ UNCHANGED schedVars

\* orchestrator._record_success(p)
RecordSuccess(p) ==
    /\ CanCount(p)
    /\ provider_health' = RecordSuccessHealth(p, provider_health)
    /\ last' = [op |-> "recordSuccess", provider |-> p, ret |-> TRUE]
    /\ AfterSuccess(p)
    /\ UNCHANGED now
    /\ UNCHANGED reqVars
    /\ UNCHANGED threadVars
    /\ UNCHANGED clientVars
    /\ UNCHANGED schedVars

\* orchestrator._record_failure(p)
RecordFailure(p) ==
    /\ CanCount(p)
    /\ provider_health' = RecordFailureHealth(p, provider_health, now)
    /\ last' = [op |-> "recordFailure", provider |-> p, ret |-> TRUE]
    /\ AfterFailure(p)
    /\ UNCHANGED now
    /\ UNCHANGED reqVars
    /\ UNCHANGED threadVars
    /\ UNCHANGED clientVars
    /\ UNCHANGED schedVars

\* orchestrator.get_provider_health_status()
GetProviderHealthStatus ==
    /\ last' = [op |-> "snapshot", provider |-> STUB, ret |-> HealthStatus(provider_health)]
    /\ UNCHANGED trackerVars
    /\ UNCHANGED reqVars
    /\ UNCHANGED threadVars
    /\ UNCHANGED clientVars
    /\ UNCHANGED schedVars

\* MultiAIOrchestrator.__init__
Init ==
    /\ now = 1
    /\ provider_health = [p \in TrackedProviders |-> ProviderHealth(p)]
    /\ last = [op |-> "init", provider |-> STUB, ret |-> TRUE]
    /\ streakF = [p \in TrackedProviders |-> 0]
    /\ consecF = [p \in TrackedProviders |-> 0]
    /\ hoSucc = [p \in TrackedProviders |-> 0]
    /\ pc = "idle"
    /\ req = [context |-> [topic |-> <<>>, contract_id |-> <<>>, current_position |-> <<>>,
                            target_position |-> <<>>, fallback_position |-> [some |-> FALSE, text |-> <<>>]],
               prompt_override |-> [some |-> FALSE, text |-> <<>>], providers |-> <<>>, i |-> 0]
    /\ calls = <<>>
    /\ outcomes = <<>>
    /\ interrupts = {}
    /\ touched = {}
    /\ threads = [t \in Threads |-> IdleThread]
    /\ cache = {}
    /\ first = {}
    /\ config = [enable_cache |-> TRUE]
    /\ scheduler = [enabled |-> TRUE, task |-> None, stop_event |-> 0, set_events |-> {}]
    /\ tasks = [k \in 1..MaxTasks |-> NoTask]
    /\ caller = [op |-> "idle", awaiting |-> None]
    /\ stopped = FALSE
    /\ result = [kind |-> "none",
                  guidance |-> [present |-> FALSE, summary_len |-> 20, fallback_recommendation |-> <<"a", "a", "a", "a", "a">>,
                                talking_points |-> 2, risk_callouts |-> 1, confidence |-> 82,
                                generated_prompt |-> <<"a">>, cached |-> FALSE, model |-> "gemini-1.5-flash-latest", latency_ms |-> 128],
                  exc |-> "none", origin |-> "none", provider |-> STUB]

IsAvailableAny == \E p \in AIProvider : IsAvailable(p)
RecordSuccessAny == \E p \in AIProvider : RecordSuccess(p)
RecordFailureAny == \E p \in AIProvider : RecordFailure(p)

NextTracker ==
    \/ Tick
    \/ IsAvailableAny
    \/ RecordSuccessAny
    \/ RecordFailureAny
    \/ GetProviderHealthStatus

SpecTracker == Init /\ [][NextTracker]_vars

\* ------------------------------------------------------------------------
\* Texts, contexts and guidance values
\* ------------------------------------------------------------------------
IsSpace(c) == c = " "

RECURSIVE LStrip(_)
LStrip(s) == IF s # <<>> /\ IsSpace(Head(s)) THEN LStrip(Tail(s)) ELSE s

RECURSIVE RStrip(_)
RStrip(s) == IF s # <<>> /\ IsSpace(s[Len(s)]) THEN RStrip(SubSeq(s, 1, Len(s) - 1)) ELSE s

\* str.strip()
Strip(s) == RStrip(LStrip(s))

\* an optional text: None, or a text
NoText == [some |-> FALSE, text |-> <<>>]
Some(s) == [some |-> TRUE, text |-> s]
\* Python truthiness of an optional text
TruthyText(o) == o.some /\ o.text # <<>>

\* variant: the text is stripped but never truncated
SanitizeStringUntruncated(text) ==
    IF text = <<>> THEN text ELSE Strip(text)

SanitizeStringUntrimmed(text) ==
    IF Len(text) > MAX_LENGTH THEN SubSeq(text, 1, MAX_LENGTH) ELSE text

\* _sanitize_string
SanitizeString(text) ==
    IF text = <<>> THEN text
    ELSE LET sanitized == Strip(text)
         IN  IF Len(sanitized) > MAX_LENGTH THEN SubSeq(sanitized, 1, MAX_LENGTH) ELSE sanitized

\* NegotiationContext: the Field constraints of the text fields the model
\* keeps (topic, contract_id, current_position, target_position,
\* fallback_position); template_id is constrained like contract_id
FieldsValid(c) ==
    /\ Len(c.topic) >= 1 /\ Len(c.topic) <= TOPIC_MAX_LENGTH
    /\ Len(c.contract_id) >= 1
    /\ Len(c.current_position) >= 1
    /\ Len(c.target_position) >= 1
    /\ c.fallback_position.some => Len(c.fallback_position.text) >= 1

\* the NegotiationContext(...) built from the sanitized fields
SanitizedContext(c) ==
    [topic |-> SanitizeString(c.topic),
     contract_id |-> SanitizeString(c.contract_id),
     current_position |-> SanitizeString(c.current_position),
     target_position |-> SanitizeString(c.target_position),
     fallback_position |-> IF TruthyText(c.fallback_position)
                           THEN Some(SanitizeString(c.fallback_position.text))
                           ELSE NoText]

\* variant: the target position is not checked for blankness
ValidateInputNoTargetCheck(c) ==
    IF ~FieldsValid(c) THEN [ok |-> FALSE, exc |-> "ValueError", context |-> c]
    ELSE IF Strip(c.topic) = <<>> THEN [ok |-> FALSE, exc |-> "ValueError", context |-> c]
    ELSE IF Strip(c.current_position) = <<>> THEN [ok |-> FALSE, exc |-> "ValueError", context |-> c]
    ELSE [ok |-> TRUE, exc |-> "none", context |-> SanitizedContext(c)]

\* _validate_input: the validated context, or the exception raised.
\* model_validate failing is re-raised as ValueError; the three blank checks
\* raise ValueError; the constructor call on the sanitized fields raises
\* pydantic's ValidationError (a ValueError) when a sanitized field breaks
\* a Field constraint.
ValidateInput(c) ==
    IF ~FieldsValid(c) THEN [ok |-> FALSE, exc |-> "ValueError", context |-> c]
    ELSE IF Strip(c.topic) = <<>> THEN [ok |-> FALSE, exc |-> "ValueError", context |-> c]
    ELSE IF Strip(c.current_position) = <<>> THEN [ok |-> FALSE, exc |-> "ValueError", context |-> c]
    ELSE IF Strip(c.target_position) = <<>> THEN [ok |-> FALSE, exc |-> "ValueError", context |-> c]
    ELSE IF ~FieldsValid(SanitizedContext(c))
         THEN [ok |-> FALSE, exc |-> "ValidationError", context |-> c]
    ELSE [ok |-> TRUE, exc |-> "none", context |-> SanitizedContext(c)]

\* DEFAULT_MODEL of gemini.py: config.model of the Gemini client
GeminiModel == "gemini-1.5-flash-latest"
\* f"openai:{openai_guidance.model}" with DEFAULT_MODEL of openai_client.py
OpenAIModel == "openai:gpt-4o-mini"

\* f"Stub prompt for {context.topic}"
StubPrompt(topic) == <<"S", "t", "u", "b", " ", "p", "r", "o", "m", "p", "t", " ", "f", "o", "r", " ">> \o topic

\* variant: the confidence grows with the length of the target position
BuildStubGuidanceScaledConfidence(context, prompt) ==
    [present |-> TRUE,
     summary_len |-> Len("Position the conversation around ") + Len(context.topic)
                     + Len(" by contrasting the current supplier stance with the desired target outcome. Highlight business impact and align stakeholders on the recommended fallback if resistance emerges."),
     fallback_recommendation |-> IF TruthyText(context.fallback_position)
                                 THEN context.fallback_position.text
                                 ELSE context.target_position,
     talking_points |-> 3,
     risk_callouts |-> 1,
     confidence |-> STUB_CONFIDENCE + Len(context.target_position) - 3,
     generated_prompt |-> prompt,
     cached |-> FALSE,
     model |-> GeminiModel,
     latency_ms |-> STUB_LATENCY]

\* variant: the recommendation is always the target position
BuildStubGuidanceTargetOnly(context, prompt) ==
    [present |-> TRUE,
     summary_len |-> Len("Position the conversation around ") + Len(context.topic)
                     + Len(" by contrasting the current supplier stance with the desired target outcome. Highlight business impact and align stakeholders on the recommended fallback if resistance emerges."),
     fallback_recommendation |-> context.target_position,
     talking_points |-> 3,
     risk_callouts |-> 1,
     confidence |-> STUB_CONFIDENCE,
     generated_prompt |-> prompt,
     cached |-> FALSE,
     model |-> GeminiModel,
     latency_ms |-> STUB_LATENCY]

\* GeminiFlashClient._build_stub_guidance.  A guidance keeps the length of
\* its stripped summary and the numbers of talking points and risk callouts
\* in place of the texts.
BuildStubGuidance(context, prompt) ==
    [present |-> TRUE,
     summary_len |-> Len("Position the conversation around ") + Len(context.topic)
                     + Len(" by contrasting the current supplier stance with the desired target outcome. Highlight business impact and align stakeholders on the recommended fallback if resistance emerges."),
     fallback_recommendation |-> IF TruthyText(context.fallback_position)
                                 THEN context.fallback_position.text
                                 ELSE context.target_position,
     talking_points |-> 3,
     risk_callouts |-> 1,
     confidence |-> STUB_CONFIDENCE,
     generated_prompt |-> prompt,
     cached |-> FALSE,
     model |-> GeminiModel,
     latency_ms |-> STUB_LATENCY]

\* variant: the latency reported is taken from gemini's health record and
\* the size of the client's cache
GenerateStubGuidanceFromState(context, prompt_override) ==
    [BuildStubGuidance(context,
        IF TruthyText(prompt_override) THEN prompt_override.text ELSE StubPrompt(context.topic))
     EXCEPT !.latency_ms = STUB_LATENCY + provider_health[GEMINI].failure_count + Cardinality(cache)]

\* MultiAIOrchestrator._generate_stub_guidance
GenerateStubGuidance(context, prompt_override) ==
    BuildStubGuidance(context,
        IF TruthyText(prompt_override) THEN prompt_override.text ELSE StubPrompt(context.topic))

\* variant: the summary must be longer than 10 characters
ValidateOutputStrictSummary(g) ==
    IF ~g.present THEN "none"
    ELSE IF g.summary_len <= 10 THEN "summary"
    ELSE IF Len(Strip(g.fallback_recommendation)) < 5 THEN "fallback_recommendation"
    ELSE IF g.talking_points = 0 THEN "talking_points"
    ELSE IF g.confidence < 0 \/ g.confidence > 100 THEN "confidence"
    ELSE "ok"

\* _validate_output: "ok", or the check that rejects the candidate
ValidateOutput(g) ==
    IF ~g.present THEN "none"
    ELSE IF g.summary_len < 10 THEN "summary"
    ELSE IF Len(Strip(g.fallback_recommendation)) < 5 THEN "fallback_recommendation"
    ELSE IF g.talking_points = 0 THEN "talking_points"
    ELSE IF g.confidence < 0 \/ g.confidence > 100 THEN "confidence"
    ELSE "ok"

\* what `raise ValidationError("...")` of _validate_output raises.  The
\* module needs pydantic 2 (model_validate, model_dump, ConfigDict,
\* field_validator); its ValidationError is pydantic_core's, which defines
\* no constructor, so evaluating ValidationError("...") raises
\* TypeError("No constructor defined") before anything is raised as a
\* ValidationError.
OutputRejectionRaises == "TypeError"

\* variant: the except clause also catches TypeError
CaughtWithTypeError(exc) ==
    exc \in {"GeminiServiceError", "OpenAIServiceError", "ValidationError", "TypeError"}

\* the except clause of generate_guidance
Caught(exc) == exc \in {"GeminiServiceError", "OpenAIServiceError", "ValidationError"}

\* variant: the preference is ignored
GetProviderOrderDefault(preferred) == <<GEMINI, OPENAI, STUB>>

\* _get_provider_order
GetProviderOrder(preferred) ==
    IF preferred = OPENAI THEN <<OPENAI, GEMINI, STUB>>
    ELSE <<GEMINI, OPENAI, STUB>>

\* ------------------------------------------------------ sample inputs
Txt(n) == [i \in 1..n |-> "a"]
Padded(s) == <<" ">> \o s \o <<" ">>

\* a context that passes validation: padded topic, short target position
BaseContext ==
    [topic |-> Padded(Txt(2)), contract_id |-> Txt(1), current_position |-> Txt(3),
     target_position |-> Txt(3), fallback_position |-> NoText]

\* contexts handed to generate_guidance: three that pass validation (the
\* fallback recommendation of the stub is 3, 6 and 5 characters long) and
\* five that do not
Contexts ==
    { BaseContext,
      [BaseContext EXCEPT !.target_position = Padded(Txt(6))],
      [BaseContext EXCEPT !.fallback_position = Some(Txt(5))],
      [BaseContext EXCEPT !.topic = <<>>],
      [BaseContext EXCEPT !.topic = <<" ">>],
      [BaseContext EXCEPT !.current_position = <<" ", " ">>],
      [BaseContext EXCEPT !.target_position = <<" ">>],
      [BaseContext EXCEPT !.fallback_position = Some(<<" ">>)] }

PromptOverrides == {NoText, Some(Txt(1))}
\* preferred_provider: None ("none") or any AIProvider
Preferences == {"none", GEMINI, OPENAI, STUB}

\* the model identifier a provider's client puts on its results
ModelOf(p) == IF p = OPENAI THEN OpenAIModel ELSE GeminiModel

\* a structured answer of provider p that meets the quality contract
GoodGuidance(p) ==
    [present |-> TRUE, summary_len |-> 20, fallback_recommendation |-> Txt(5),
     talking_points |-> 2, risk_callouts |-> 1, confidence |-> 82,
     generated_prompt |-> Txt(1), cached |-> FALSE, model |-> ModelOf(p), latency_ms |-> 128]

\* what the capability of provider p can return for a request:
\* gemini.py 102/135 return the stub guidance of the Gemini client,
\* gemini.py 137-148 and openai_client.py 116-126 whatever the model's JSON
\* holds ("" and () where a key is missing); an injected client can return
\* anything, None included
Candidates(p, context, prompt_override) ==
    (IF p = GEMINI THEN {GenerateStubGuidance(context, prompt_override)} ELSE {})
    \cup { GoodGuidance(p),
           [GoodGuidance(p) EXCEPT !.summary_len = 10, !.confidence = 30],
           [GoodGuidance(p) EXCEPT !.present = FALSE],
           [GoodGuidance(p) EXCEPT !.summary_len = 0],
           [GoodGuidance(p) EXCEPT !.fallback_recommendation = Padded(Txt(3))],
           [GoodGuidance(p) EXCEPT !.talking_points = 0],
           [GoodGuidance(p) EXCEPT !.confidence = 150] }

\* the exceptions a capability call can end in: the client's service error
\* (gemini.py 125; openai_client.py 84, 102, 108, 114), ValueError from
\* float(structured.get("confidence")) (gemini.py 142, openai_client.py 121)
\* and TypeError from iterating a null talkingPoints (gemini.py 140,
\* openai_client.py 119)
ProviderErrors(p) ==
    {IF p = OPENAI THEN "OpenAIServiceError" ELSE "GeminiServiceError", "ValueError", "TypeError"}

\* ------------------------------------------------------------------------
\* generate_guidance
\* ------------------------------------------------------------------------
Idle == [context |-> [topic |-> <<>>, contract_id |-> <<>>, current_position |-> <<>>,
                      target_position |-> <<>>, fallback_position |-> NoText],
         prompt_override |-> NoText, providers |-> <<>>, i |-> 0]

NoGuidance == [GoodGuidance(STUB) EXCEPT !.present = FALSE]

Returned(g, p) == [kind |-> "returned", guidance |-> g, exc |-> "none", origin |-> "return", provider |-> p]
Raised(e, o, p) == [kind |-> "raised", guidance |-> NoGuidance, exc |-> e, origin |-> o, provider |-> p]
NoResult == [kind |-> "none", guidance |-> NoGuidance, exc |-> "none", origin |-> "none", provider |-> STUB]

\* the provider the loop is at
Current == req.providers[req.i]

\* the records this step changes are added to `touched`
Touch == touched' = touched \cup {q \in TrackedProviders : provider_health'[q] # provider_health[q]}

\* lines 87-93: validate the input, compute the provider order
BeginRequest ==
    \E c \in Contexts, po \in PromptOverrides, pref \in Preferences :
        /\ pc = "idle"
        /\ LET v == ValidateInput(c)
           IN  IF v.ok
               THEN /\ pc' = "loop"
                    /\ req' = [context |-> v.context, prompt_override |-> po,
                               providers |-> GetProviderOrder(pref), i |-> 1]
                    /\ result' = NoResult
               ELSE /\ pc' = "raised"
                    /\ req' = Idle
                    /\ result' = Raised(v.exc, "validate_input", STUB)
        /\ calls' = <<>>
        /\ outcomes' = <<>>
        /\ interrupts' = {}
        /\ touched' = {}
        /\ last' = [op |-> "begin", provider |-> STUB, ret |-> c, preferred |-> pref]
        /\ UNCHANGED trackerVars
        /\ UNCHANGED threadVars
        /\ UNCHANGED clientVars
        /\ UNCHANGED schedVars

\* lines 99-102: the circuit breaker reports the provider unavailable
SkipProvider ==
    /\ pc = "loop"
    /\ Current # STUB
    /\ ~IsAvailableResult(Current, provider_health, now)
    /\ provider_health' = IsAvailableHealth(Current, provider_health, now)
    /\ AfterAvailable(Current)
    /\ req' = [req EXCEPT !.i = @ + 1]
    /\ last' = [op |-> "skip", provider |-> Current, ret |-> FALSE]
    /\ Touch
    /\ UNCHANGED <<now, pc, calls, outcomes, interrupts, result, threads, cache, first, config, schedVars>>

\* lines 99-108: the provider is available, its capability is called
InvokeProvider ==
    /\ pc = "loop"
    /\ Current # STUB
    /\ IsAvailableResult(Current, provider_health, now)
    /\ provider_health' = IsAvailableHealth(Current, provider_health, now)
    /\ AfterAvailable(Current)
    /\ pc' = "call"
    /\ calls' = Append(calls, Current)
    /\ last' = [op |-> "invoke", provider |-> Current, ret |-> TRUE]
    /\ Touch
    /\ UNCHANGED <<now, req, outcomes, interrupts, result, threads, cache, first, config, schedVars>>

\* variant: a caught exception moves the loop on without a failure being
\* recorded
HandleExceptionUnrecorded(exc, origin, op, what) ==
    IF Caught(exc)
    THEN /\ pc' = "loop"
         /\ req' = [req EXCEPT !.i = @ + 1]
         /\ last' = [op |-> op, provider |-> Current, ret |-> what]
         /\ UNCHANGED <<now, provider_health, streakF, consecF, hoSucc, calls, outcomes, touched, result, threads, cache, first, config, schedVars>>
    ELSE /\ pc' = "raised"
         /\ result' = Raised(exc, origin, Current)
         /\ last' = [op |-> op, provider |-> Current, ret |-> what]
         /\ UNCHANGED <<now, provider_health, streakF, consecF, hoSucc, req, calls, outcomes, touched, threads, cache, first, config, schedVars>>

\* lines 127-134, or the exception leaves generate_guidance; `op` and
\* `what` say what happened: the capability raised exc ("threw"), or the
\* candidate `what` was rejected ("rejected")
HandleException(exc, origin, op, what) ==
    IF Caught(exc)
    THEN /\ CanCount(Current)
         /\ provider_health' = RecordFailureHealth(Current, provider_health, now)
         /\ AfterFailure(Current)
         /\ pc' = "loop"
         /\ req' = [req EXCEPT !.i = @ + 1]
         /\ last' = [op |-> op, provider |-> Current, ret |-> what]
         /\ Touch
         /\ outcomes' = Append(outcomes, <<Current, "failure">>)
         /\ UNCHANGED <<now, calls, result, threads, cache, first, config, schedVars>>
    ELSE /\ pc' = "raised"
         /\ result' = Raised(exc, origin, Current)
         /\ last' = [op |-> op, provider |-> Current, ret |-> what]
         /\ UNCHANGED <<now, provider_health, streakF, consecF, hoSucc, req, calls, outcomes, touched, threads, cache, first, config, schedVars>>

\* lines 104-125: the capability returns a candidate, which is validated
ProviderReturns ==
    /\ pc = "call"
    /\ \E g \in Candidates(Current, req.context, req.prompt_override) :
          IF ValidateOutput(g) = "ok"
          THEN /\ CanCount(Current)
               /\ provider_health' = RecordSuccessHealth(Current, provider_health)
               /\ AfterSuccess(Current)
               /\ pc' = "done"
               /\ result' = Returned(g, Current)
               /\ last' = [op |-> "accepted", provider |-> Current, ret |-> g]
               /\ Touch
               /\ outcomes' = Append(outcomes, <<Current, "success">>)
               /\ UNCHANGED interrupts
               /\ UNCHANGED <<now, req, calls, threads, cache, first, config, schedVars>>
          ELSE /\ HandleException(OutputRejectionRaises, "validate_output", "rejected", g)
               /\ UNCHANGED interrupts

\* lines 104-108 ending in an exception of the capability
ProviderRaises ==
    /\ pc = "call"
    /\ \E e \in ProviderErrors(Current) : HandleException(e, "provider", "threw", e)
    /\ UNCHANGED interrupts

\* the ways a capability call can be interrupted while it waits on the
\* network: a timeout of the SDK is an Exception, an interrupt delivered to
\* the waiting call (KeyboardInterrupt, CancelledError) is a BaseException
Interruptions == {"TimeoutError", "CancelledError"}

\* gemini.py 119-125 and openai_client.py 85-102: `except Exception` turns
\* whatever Exception the SDK call raises into the client's service error;
\* a BaseException passes the handler
WrappedByClient(e, p) ==
    IF e = "TimeoutError"
    THEN (IF p = OPENAI THEN "OpenAIServiceError" ELSE "GeminiServiceError")
    ELSE e

\* lines 104-108 interrupted while the capability waits
ProviderInterrupted ==
    /\ pc = "call"
    /\ \E e \in Interruptions :
          HandleException(WrappedByClient(e, Current), "provider", "interrupted", e)
    /\ interrupts' = interrupts \cup
          {IF outcomes' = outcomes THEN "nothing" ELSE outcomes'[Len(outcomes')][2]}

\* the loop's last round, provider STUB (always available, lines 323-324),
\* and lines 136-142 behind it
StubRound ==
    /\ pc = "loop"
    /\ Current = STUB
    /\ IsAvailableResult(STUB, provider_health, now)
    /\ calls' = Append(calls, STUB)
    /\ LET g == GenerateStubGuidance(req.context, req.prompt_override)
       IN  IF ValidateOutput(g) = "ok"
           THEN /\ provider_health' = RecordSuccessHealth(STUB, provider_health)
                /\ pc' = "done"
                /\ result' = Returned(g, STUB)
                /\ last' = [op |-> "accepted", provider |-> STUB, ret |-> g]
                /\ outcomes' = Append(outcomes, <<STUB, "success">>)
                /\ UNCHANGED interrupts
           ELSE IF Caught(OutputRejectionRaises)
           THEN /\ provider_health' = RecordFailureHealth(STUB, provider_health, now)
                /\ pc' = "done"
                /\ result' = Returned(g, STUB)
                /\ last' = [op |-> "rejected", provider |-> STUB, ret |-> g]
                /\ outcomes' = Append(outcomes, <<STUB, "failure">>)
                /\ UNCHANGED interrupts
           ELSE /\ provider_health' = provider_health
                /\ pc' = "raised"
                /\ result' = Raised(OutputRejectionRaises, "validate_output", STUB)
                /\ last' = [op |-> "rejected", provider |-> STUB, ret |-> g]
                /\ outcomes' = outcomes
                /\ UNCHANGED interrupts
    /\ Touch
    /\ UNCHANGED <<now, streakF, consecF, hoSucc, req, threads, cache, first, config, schedVars>>

\* the caller has the result or the exception; the call's locals are gone
FinishRequest ==
    /\ pc \in {"done", "raised"}
    /\ pc' = "idle"
    /\ req' = Idle
    /\ calls' = <<>>
    /\ outcomes' = <<>>
    /\ interrupts' = {}
    /\ touched' = {}
    /\ result' = NoResult
    /\ last' = [op |-> "finish", provider |-> STUB, ret |-> TRUE]
    /\ UNCHANGED trackerVars
    /\ UNCHANGED threadVars
    /\ UNCHANGED clientVars
    /\ UNCHANGED schedVars

Next ==
    \/ Tick
    \/ BeginRequest
    \/ FinishRequest
    \/ SkipProvider
    \/ InvokeProvider
    \/ ProviderReturns
    \/ ProviderRaises
    \/ StubRound

Spec == Init /\ [][Next]_vars

\* the same requests when a waiting capability call can also be interrupted
NextInterrupts == Next \/ ProviderInterrupted

SpecInterrupts == Init /\ [][NextInterrupts]_vars

\* ------------------------------------------------------------------------
\* The API entry point (routers/ai.py): every request obtains its
\* orchestrator from the dependency get_multi_ai_orchestrator
\* ------------------------------------------------------------------------
\* get_multi_ai_orchestrator: MultiAIOrchestrator(), whose __init__ builds
\* the records anew
GetMultiAIOrchestrator == [p \in TrackedProviders |-> ProviderHealth(p)]

\* the request bodies FastAPI lets through to the handler: the Field
\* constraints of NegotiationContext hold
ApiContexts == {c \in Contexts : FieldsValid(c)}

\* POST /ai/negotiation: the dependency is resolved, then the handler calls
\* generate_guidance(context, prompt_override) on its result (lines 87-93
\* of the orchestrator, no preferred provider)
ApiBeginRequest ==
    \E c \in ApiContexts, po \in PromptOverrides :
        /\ pc = "idle"
        /\ provider_health' = GetMultiAIOrchestrator
        /\ streakF' = [p \in TrackedProviders |-> 0]
        /\ hoSucc' = [p \in TrackedProviders |-> 0]
        /\ LET v == ValidateInput(c)
           IN  IF v.ok
               THEN /\ pc' = "loop"
                    /\ req' = [context |-> v.context, prompt_override |-> po,
                               providers |-> GetProviderOrder("none"), i |-> 1]
                    /\ result' = NoResult
               ELSE /\ pc' = "raised"
                    /\ req' = Idle
                    /\ result' = Raised(v.exc, "validate_input", STUB)
        /\ calls' = <<>>
        /\ outcomes' = <<>>
        /\ interrupts' = {}
        /\ touched' = {}
        /\ last' = [op |-> "begin", provider |-> STUB, ret |-> c, preferred |-> "none"]
        /\ UNCHANGED <<now, consecF, threads, cache, first, config, schedVars>>

\* GET /ai/health/providers: the snapshot of a new orchestrator
ApiProviderHealth ==
    /\ pc = "idle"
    /\ provider_health' = GetMultiAIOrchestrator
    /\ streakF' = [p \in TrackedProviders |-> 0]
    /\ hoSucc' = [p \in TrackedProviders |-> 0]
    /\ last' = [op |-> "snapshot", provider |-> STUB, ret |-> HealthStatus(GetMultiAIOrchestrator)]
    /\ UNCHANGED <<now, consecF>>
    /\ UNCHANGED reqVars
    /\ UNCHANGED threadVars
    /\ UNCHANGED clientVars
    /\ UNCHANGED schedVars

\* lines 99-108 for a real provider: skipped or invoked, as its record says
AttemptProvider ==
    /\ pc = "loop"
    /\ Current # STUB
    /\ IF IsAvailableResult(Current, provider_health, now) THEN InvokeProvider ELSE SkipProvider

NextApi ==
    \/ Tick
    \/ ApiBeginRequest
    \/ ApiProviderHealth
    \/ FinishRequest
    \/ AttemptProvider
    \/ ProviderReturns
    \/ ProviderRaises
    \/ StubRound

SpecApi == Init /\ [][NextApi]_vars

\* ------------------------------------------------------------------------
\* The breaker methods called from several threads on one orchestrator.
\* The methods take no lock; a thread can be descheduled between any two
\* statements, and between the read and the write of `x.count += 1`.
\* ------------------------------------------------------------------------
\* the provider the threads' calls are about
ThreadProviders == {GEMINI}

\* some thread is inside a call about provider p
InFlight(p) == \E t \in Threads : threads[t].op # "idle" /\ threads[t].provider = p

\* a thread enters _record_failure, _record_success or
\* _is_provider_available and fetches the record (lines 233, 261, 277), or
\* a request running on the thread reaches the provider in the loop of
\* generate_guidance ("attempt", line 97)
ThreadCall ==
    \E t \in Threads, p \in ThreadProviders,
       op \in {"recordFailure", "recordSuccess", "isAvailable", "attempt"} :
        /\ threads[t].op = "idle"
        /\ CanCount(p)
        /\ threads' = [threads EXCEPT ![t] = [op |-> op, provider |-> p, at |-> 1, tmp |-> 0]]
        /\ last' = [op |-> "call", provider |-> p, ret |-> op]
        /\ UNCHANGED trackerVars
        /\ UNCHANGED reqVars
        /\ UNCHANGED clientVars
        /\ UNCHANGED schedVars

\* one statement of _record_failure (lines 278-283)
FailureStep ==
    \E t \in Threads :
        LET th == threads[t]
            p == th.provider
            h == provider_health[p]
        IN  /\ th.op = "recordFailure"
            /\ CASE th.at = 1 ->   \* 278: failure_count is read
                       /\ threads' = [threads EXCEPT ![t].at = 2, ![t].tmp = h.failure_count]
                       /\ UNCHANGED <<provider_health, streakF, consecF, hoSucc>>
                 [] th.at = 2 ->   \* 278: the sum is stored
                       /\ provider_health' = [provider_health EXCEPT ![p].failure_count = th.tmp + 1]
                       /\ threads' = [threads EXCEPT ![t].at = 3, ![t].tmp = 0]
                       /\ UNCHANGED <<streakF, consecF, hoSucc>>
                 [] th.at = 3 ->   \* 279-280
                       /\ provider_health' = [provider_health EXCEPT ![p].last_failure_time = now,
                                                                      ![p].success_count = 0]
                       /\ threads' = [threads EXCEPT ![t].at = 4]
                       /\ UNCHANGED <<streakF, consecF, hoSucc>>
                 [] th.at = 4 ->   \* 282-283, return
                       /\ provider_health' = IF FailureOpens(h)
                                             THEN [provider_health EXCEPT ![p].state = OPEN]
                                             ELSE provider_health
                       /\ threads' = [threads EXCEPT ![t] = IdleThread]
                       /\ AfterFailure(p)
            /\ last' = [op |-> "recordFailure:" \o ToString(th.at), provider |-> p, ret |-> t]
            /\ UNCHANGED now
            /\ UNCHANGED reqVars
            /\ UNCHANGED clientVars
            /\ UNCHANGED schedVars

\* one statement of _record_success (lines 263-268)
SuccessStep ==
    \E t \in Threads :
        LET th == threads[t]
            p == th.provider
            h == provider_health[p]
        IN  /\ th.op = "recordSuccess"
            /\ CASE th.at = 1 ->   \* 263: success_count is read
                       /\ threads' = [threads EXCEPT ![t].at = 2, ![t].tmp = h.success_count]
                       /\ UNCHANGED <<provider_health, streakF, consecF, hoSucc>>
                 [] th.at = 2 ->   \* 263: the sum is stored
                       /\ provider_health' = [provider_health EXCEPT ![p].success_count = th.tmp + 1]
                       /\ threads' = [threads EXCEPT ![t].at = 3, ![t].tmp = 0]
                       /\ UNCHANGED <<streakF, consecF, hoSucc>>
                 [] th.at = 3 ->   \* 264
                       /\ provider_health' = [provider_health EXCEPT ![p].failure_count = 0]
                       /\ threads' = [threads EXCEPT ![t].at = 4]
                       /\ UNCHANGED <<streakF, consecF, hoSucc>>
                 [] th.at = 4 ->   \* 266-268, return
                       /\ provider_health' = IF SuccessCloses(h)
                                             THEN [provider_health EXCEPT ![p].state = CLOSED]
                                             ELSE provider_health
                       /\ threads' = [threads EXCEPT ![t] = IdleThread]
                       /\ AfterSuccess(p)
            /\ last' = [op |-> "recordSuccess:" \o ToString(th.at), provider |-> p, ret |-> t]
            /\ UNCHANGED now
            /\ UNCHANGED reqVars
            /\ UNCHANGED clientVars
            /\ UNCHANGED schedVars

\* one statement of _is_provider_available (lines 237-253)
AvailableStep ==
    \E t \in Threads :
        LET th == threads[t]
            p == th.provider
            h == provider_health[p]
        IN  /\ th.op = "isAvailable"
            /\ CASE th.at = 1 ->   \* 237-246: the tests on the record
                       /\ threads' = [threads EXCEPT ![t] =
                              IF h.state = OPEN /\ TimeoutExceeded(h, now)
                              THEN [th EXCEPT !.at = 2] ELSE IdleThread]
                       /\ last' = [op |-> "isAvailable:1", provider |-> p,
                                   ret |-> IsAvailableResult(p, provider_health, now)]
                       /\ UNCHANGED <<provider_health, streakF, consecF, hoSucc>>
                 [] th.at = 2 ->   \* 248-250: HALF_OPEN is stored, return True
                       /\ provider_health' = [provider_health EXCEPT ![p].state = HALF_OPEN]
                       /\ threads' = [threads EXCEPT ![t] = IdleThread]
                       /\ last' = [op |-> "isAvailable:2", provider |-> p, ret |-> TRUE]
                       /\ AfterAvailable(p)
            /\ UNCHANGED now
            /\ UNCHANGED reqVars
            /\ UNCHANGED clientVars
            /\ UNCHANGED schedVars

\* one round of the loop of generate_guidance for the provider (lines
\* 97-134): the availability check, the capability call, and the call of
\* _record_success or _record_failure its outcome leads to.  While the
\* capability call is in flight `tmp` is 1 when the check admitted it as a
\* trial (the record was OPEN or HALF_OPEN), 0 otherwise
AttemptStep ==
    \E t \in Threads :
        LET th == threads[t]
            p == th.provider
            h == provider_health[p]
        IN  /\ th.op = "attempt"
            /\ CASE th.at = 1 ->   \* 237-253: the tests on the record
                       /\ threads' = [threads EXCEPT ![t] =
                              IF h.state = OPEN
                              THEN (IF TimeoutExceeded(h, now) THEN [th EXCEPT !.at = 2]
                                    ELSE IdleThread)   \* 100-102: skipped
                              ELSE [th EXCEPT !.at = 3,
                                              !.tmp = IF h.state = HALF_OPEN THEN 1 ELSE 0]]
                       /\ UNCHANGED <<provider_health, streakF, consecF, hoSucc>>
                 [] th.at = 2 ->   \* 248-250: HALF_OPEN is stored, return True
                       /\ provider_health' = [provider_health EXCEPT ![p].state = HALF_OPEN]
                       /\ threads' = [threads EXCEPT ![t].at = 3, ![t].tmp = 1]
                       /\ AfterAvailable(p)
                 [] th.at = 3 ->   \* 104-134: the capability call ends, its outcome is recorded next
                       /\ \E outcome \in {"recordSuccess", "recordFailure"} :
                             threads' = [threads EXCEPT ![t] =
                                            [op |-> outcome, provider |-> p, at |-> 1, tmp |-> 0]]
                       /\ UNCHANGED <<provider_health, streakF, consecF, hoSucc>>
            /\ last' = [op |-> "attempt:" \o ToString(th.at), provider |-> p, ret |-> t]
            /\ UNCHANGED now
            /\ UNCHANGED reqVars
            /\ UNCHANGED clientVars
            /\ UNCHANGED schedVars

NextThreads ==
    \/ Tick
    \/ ThreadCall
    \/ FailureStep
    \/ SuccessStep
    \/ AvailableStep
    \/ AttemptStep

SpecThreads == Init /\ [][NextThreads]_vars

\* ------------------------------------------------------------------------
\* Properties of the circuit breaker (checked under SpecTracker)
\* ------------------------------------------------------------------------
\* the step was the call `op` on provider p
Called(op, p) == last'.op = op /\ last'.provider = p

\* C2: starting from the fresh record, after exactly FAILURE_THRESHOLD
\* consecutive recordFailure calls the state is Open and isAvailable (asked
\* before the recovery timeout has run out) returns false; after two
\* consecutive failures the state is still Closed.
C2_OpensExactlyAtThreshold ==
    \A p \in TrackedProviders :
        /\ streakF[p] = FAILURE_THRESHOLD - 1 => provider_health[p].state = CLOSED
        /\ streakF[p] = FAILURE_THRESHOLD =>
              /\ provider_health[p].state = OPEN
              /\ (now - provider_health[p].last_failure_time <= RECOVERY_TIMEOUT
                    => ~IsAvailableResult(p, provider_health, now))
              /\ (last.op = "isAvailable" /\ last.provider = p
                  /\ now = provider_health[p].last_failure_time
                    => last.ret = FALSE)

\* three failures on the fresh gemini record, then isAvailable answered false
C2_Witness ==
    /\ streakF[GEMINI] = FAILURE_THRESHOLD
    /\ provider_health[GEMINI].state = OPEN
    /\ last = [op |-> "isAvailable", provider |-> GEMINI, ret |-> FALSE]

\* C3: while a provider is Open and no more than RECOVERY_TIMEOUT has
\* elapsed since its last recorded failure, every isAvailable call for it
\* returns false and leaves it Open.
C3_NoEarlyReopen ==
    [][\A p \in TrackedProviders :
          (/\ Called("isAvailable", p)
           /\ provider_health[p].state = OPEN
           /\ now - provider_health[p].last_failure_time <= RECOVERY_TIMEOUT)
          => (last'.ret = FALSE /\ provider_health'[p] = provider_health[p])]_vars

\* isAvailable answered false exactly RECOVERY_TIMEOUT after the last failure
C3_Witness ==
    /\ last = [op |-> "isAvailable", provider |-> OPENAI, ret |-> FALSE]
    /\ provider_health[OPENAI].state = OPEN
    /\ now - provider_health[OPENAI].last_failure_time = RECOVERY_TIMEOUT

\* C4: when a provider is Open and more than RECOVERY_TIMEOUT has elapsed
\* since its last failure, an isAvailable call for it sets the state to
\* HalfOpen, leaves both counts unchanged and returns true; no other
\* operation and no passage of time moves a record out of Open.
C4_HalfOpenOnRead ==
    [][\A p \in TrackedProviders :
          provider_health[p].state = OPEN =>
             /\ (/\ Called("isAvailable", p)
                 /\ now - provider_health[p].last_failure_time > RECOVERY_TIMEOUT)
                => /\ provider_health'[p].state = HALF_OPEN
                   /\ provider_health'[p].failure_count = provider_health[p].failure_count
                   /\ provider_health'[p].success_count = provider_health[p].success_count
                   /\ last'.ret = TRUE
             /\ provider_health'[p].state # OPEN
                => /\ Called("isAvailable", p)
                   /\ now - provider_health[p].last_failure_time > RECOVERY_TIMEOUT]_vars

\* an isAvailable call has just moved gemini to HalfOpen with its counts kept
C4_Witness ==
    /\ last = [op |-> "isAvailable", provider |-> GEMINI, ret |-> TRUE]
    /\ provider_health[GEMINI].state = HALF_OPEN
    /\ provider_health[GEMINI].failure_count = FAILURE_THRESHOLD
    /\ hoSucc[GEMINI] = 0
    /\ now - provider_health[GEMINI].last_failure_time > RECOVERY_TIMEOUT

C6_HalfOpenFailureReopens ==
    [][\A p \in TrackedProviders :
          (Called("recordFailure", p) /\ provider_health[p].state = HALF_OPEN)
          => /\ provider_health'[p].state = OPEN
             /\ provider_health'[p].success_count = 0
             /\ provider_health'[p].last_failure_time = now]_vars

\* C7: in Closed, each recordFailure increases the failure count by exactly
\* 1 and each recordSuccess resets it to 0, and a Closed breaker moves to
\* Open exactly on the recordFailure that makes FAILURE_THRESHOLD failures
\* with no success between them (two failures after a success leave it
\* Closed).
C7_OnlyConsecutiveFailuresOpen ==
    [][\A p \in TrackedProviders :
          provider_health[p].state = CLOSED =>
             /\ Called("recordFailure", p)
                => /\ provider_health'[p].failure_count = provider_health[p].failure_count + 1
                   /\ (provider_health'[p].state = OPEN <=> consecF'[p] >= FAILURE_THRESHOLD)
                   /\ (provider_health'[p].state = CLOSED <=> consecF'[p] < FAILURE_THRESHOLD)
             /\ Called("recordSuccess", p)
                => /\ provider_health'[p].failure_count = 0
                   /\ provider_health'[p].state = CLOSED
             /\ provider_health'[p].state # CLOSED => Called("recordFailure", p)]_vars

\* a success was recorded on gemini and two failures after it: still Closed
C7_Witness ==
    /\ provider_health[GEMINI].state = CLOSED
    /\ streakF[GEMINI] = -1
    /\ consecF[GEMINI] = FAILURE_THRESHOLD - 1
    /\ provider_health[GEMINI].failure_count = FAILURE_THRESHOLD - 1
    /\ last = [op |-> "recordFailure", provider |-> GEMINI, ret |-> TRUE]

\* ------------------------------------------------------------------------
\* Properties of generate_guidance (checked under Spec)
\* ------------------------------------------------------------------------
\* the exceptions that are InvalidInput: ValueError and its subclass
\* pydantic ValidationError
InvalidInput == {"ValueError", "ValidationError"}

\* the Guidance quality contract of the output validator
QualityOK(g) ==
    /\ g.present
    /\ g.summary_len >= 10
    /\ Len(Strip(g.fallback_recommendation)) >= 5
    /\ g.talking_points >= 1
    /\ g.confidence >= 0 /\ g.confidence <= 100

\* topic, current position or target position is empty or whitespace-only
BlankRequired(c) ==
    \/ Strip(c.topic) = <<>>
    \/ Strip(c.current_position) = <<>>
    \/ Strip(c.target_position) = <<>>

\* C1: the only failure generate_guidance ever raises is InvalidInput, and
\* only from the validation step: once the context has passed validation the
\* call returns a Guidance, whatever the providers do.
C1_Totality ==
    pc = "raised" => (result.origin = "validate_input" /\ result.exc \in InvalidInput)

\* C8: when the context's topic, current position or target position is
\* empty or whitespace-only, generate_guidance raises InvalidInput without
\* invoking any provider capability or the fallback generator and without
\* changing any health record.
C8_ValidationPrecedesProviders ==
    [][(last'.op = "begin" /\ BlankRequired(last'.ret))
       => /\ pc' = "raised"
          /\ result'.kind = "raised"
          /\ result'.exc \in InvalidInput
          /\ result'.origin = "validate_input"
          /\ calls' = <<>>
          /\ touched' = {}
          /\ provider_health' = provider_health]_vars

\* a blank target position was refused while gemini's breaker was Open
C8_Witness ==
    /\ last.op = "begin"
    /\ Strip(last.ret.target_position) = <<>>
    /\ Strip(last.ret.topic) # <<>>
    /\ pc = "raised"
    /\ result.exc = "ValueError"
    /\ provider_health[GEMINI].state = OPEN

\* C9: when a provider's result passes the output validator,
\* generate_guidance records one success for that provider (success count
\* +1, failure count 0), changes no other record, returns that result and
\* invokes no provider afterwards; when the first provider of the try-order
\* succeeds the second one is never invoked and its record is unchanged.
C9_FirstAcceptedEndsRequest ==
    /\ [](pc = "done" /\ result.provider \in TrackedProviders =>
            /\ calls # <<>> /\ calls[Len(calls)] = result.provider
            /\ result.provider = req.providers[1] =>
                 /\ calls = <<req.providers[1]>>
                 /\ req.providers[2] \notin touched)
    /\ [][/\ \A p \in TrackedProviders :
               (pc = "call" /\ req.providers[req.i] = p
                /\ last'.op \in {"accepted", "rejected"} /\ QualityOK(last'.ret))
               => /\ last'.op = "accepted"
                  /\ pc' = "done"
                  /\ result' = Returned(last'.ret, p)
                  /\ provider_health'[p].success_count = provider_health[p].success_count + 1
                  /\ provider_health'[p].failure_count = 0
                  /\ \A q \in TrackedProviders \ {p} : provider_health'[q] = provider_health[q]
                  /\ calls' = calls
          /\ pc = "done" => (pc' = "idle" /\ last'.op = "finish") \/ (calls' = calls /\ pc' = "done")]_vars

\* gemini answered first with an accepted result while openai's breaker,
\* Open, was never consulted
C9_Witness ==
    /\ pc = "done"
    /\ req.providers[1] = GEMINI
    /\ result = Returned(GoodGuidance(GEMINI), GEMINI)
    /\ calls = <<GEMINI>>
    /\ touched = {GEMINI}
    /\ provider_health[GEMINI].success_count = 2
    /\ provider_health[OPENAI].state = OPEN

\* C10: when every non-fallback provider of the try-order was skipped or
\* failed, generate_guidance returns the Guidance produced by the Fallback
\* Generator, and the model field of that Guidance differs from the model
\* identifier carried by any real provider's result.
C10_FallbackIdentified ==
    (pc \in {"done", "raised"} /\ result.origin # "validate_input" /\ result.provider = STUB)
    => /\ result.kind = "returned"
       /\ result.guidance = GenerateStubGuidance(req.context, req.prompt_override)
       /\ result.guidance.model \notin {ModelOf(p) : p \in TrackedProviders}

C12_ProviderErrorAbsorbed ==
    [][\A p \in TrackedProviders :
          (pc = "call" /\ Called("threw", p))
          => /\ provider_health'[p].failure_count = provider_health[p].failure_count + 1
             /\ \A q \in TrackedProviders \ {p} : provider_health'[q] = provider_health[q]
             /\ pc' = "loop"
             /\ result' = NoResult
             /\ req'.providers = req.providers
             /\ req'.i = req.i + 1]_vars

\* the providers the loop of the current request has passed without
\* invoking their capability
Skipped ==
    {req.providers[k] : k \in 1..(req.i - 1)} \ ({calls[k] : k \in 1..Len(calls)} \cup {STUB})

\* C13: during a request a provider for which isAvailable returns false
\* (Open, recovery timeout not exceeded) does not have its capability
\* invoked, and its state, failure count, success count and last-failure
\* time are the same after the request as before.
C13_SkippedUntouched ==
    /\ [](\A p \in Skipped : p \notin touched)
    /\ [][\A p \in TrackedProviders :
             /\ (pc = "loop" /\ req.providers[req.i] = p /\ req' # req
                 /\ provider_health[p].state = OPEN
                 /\ now - provider_health[p].last_failure_time <= RECOVERY_TIMEOUT)
                => /\ Called("skip", p)
                   /\ calls' = calls
                   /\ pc' = "loop"
                   /\ req'.i = req.i + 1
                   /\ provider_health' = provider_health
             /\ Called("skip", p)
                => /\ provider_health[p].state = OPEN
                   /\ now - provider_health[p].last_failure_time <= RECOVERY_TIMEOUT
                   /\ provider_health' = provider_health
                   /\ calls' = calls
             /\ (pc = "loop" /\ Called("invoke", p))
                => ~(/\ provider_health[p].state = OPEN
                     /\ now - provider_health[p].last_failure_time <= RECOVERY_TIMEOUT)]_vars

\* a request that skipped the Open gemini was answered by openai; gemini's
\* record is as the request found it
C13_Witness ==
    /\ pc = "done"
    /\ result.provider = OPENAI
    /\ calls = <<OPENAI>>
    /\ GEMINI \in Skipped
    /\ touched = {OPENAI}
    /\ provider_health[GEMINI].state = OPEN
    /\ provider_health[GEMINI].failure_count = FAILURE_THRESHOLD

\* C14: a generate_guidance call with preferred provider OpenAI (the
\* secondary) invokes OpenAI's capability strictly before Gemini's, and
\* invokes Gemini's only if OpenAI was skipped or failed.
C14_PreferenceRespected ==
    /\ [][/\ (last'.op = "begin" /\ last'.preferred = OPENAI /\ pc' = "loop")
             => (req'.providers[1] = OPENAI /\ req'.i = 1 /\ calls' = <<>>)
          /\ (pc # "idle" /\ pc' # "idle") => req'.providers = req.providers]_vars
    /\ []((pc # "idle" /\ req.i >= 1 /\ req.providers[1] = OPENAI
           /\ \E k \in 1..Len(calls) : calls[k] = GEMINI)
          => /\ req.i >= 2
             /\ \A k \in 1..Len(calls) : calls[k] = OPENAI => k = 1
             /\ calls[1] = GEMINI => OPENAI \in Skipped
             /\ calls[1] = OPENAI => (calls[2] = GEMINI /\ consecF[OPENAI] >= 1))

\* openai was preferred, called first and failed; gemini's capability is
\* being called after it
C14_Witness ==
    /\ pc = "call"
    /\ req.providers[1] = OPENAI
    /\ calls = <<OPENAI, GEMINI>>
    /\ last = [op |-> "invoke", provider |-> GEMINI, ret |-> TRUE]
    /\ provider_health[OPENAI].failure_count = 1

\* C15: for every preference hint (none, primary, secondary, fallback) the
\* try-order contains each of the three provider ids exactly once and ends
\* with the fallback identity; it is [secondary, primary, fallback] when the
\* hint is the secondary provider and [primary, secondary, fallback] for
\* every other hint; it is the same in every state of the health records
\* and computing it changes none.
C15_TryOrderShape ==
    [][(last'.op = "begin" /\ pc' = "loop")
       => /\ last'.preferred \in {"none", GEMINI, OPENAI, STUB}
          /\ Len(req'.providers) = Cardinality(AIProvider)
          /\ \A p \in AIProvider : Cardinality({k \in 1..Len(req'.providers) : req'.providers[k] = p}) = 1
          /\ req'.providers[Len(req'.providers)] = STUB
          /\ req'.providers = IF last'.preferred = OPENAI THEN <<OPENAI, GEMINI, STUB>>
                                                         ELSE <<GEMINI, OPENAI, STUB>>
          /\ provider_health' = provider_health]_vars

\* the order was computed for the hint "fallback" while gemini was Open
\* and openai had a failure on its record
C15_Witness ==
    /\ last.op = "begin"
    /\ last.preferred = STUB
    /\ req.providers = <<GEMINI, OPENAI, STUB>>
    /\ provider_health[GEMINI].state = OPEN
    /\ provider_health[OPENAI].failure_count = 1

C16_FallbackExempt ==
    /\ [](/\ IsAvailableResult(STUB, provider_health, now)
          /\ DOMAIN provider_health = TrackedProviders
          /\ STUB \notin DOMAIN provider_health)
    /\ [][/\ Called("isAvailable", STUB)
             => (last'.ret = TRUE /\ provider_health' = provider_health)
          /\ (Called("recordSuccess", STUB) \/ Called("recordFailure", STUB))
             => /\ provider_health' = provider_health
                /\ DOMAIN provider_health' = DOMAIN provider_health]_vars

\* a failure was recorded against the fallback identity while gemini was
\* Open and openai had two failures: the records are those two, unchanged
C16_Witness ==
    /\ last = [op |-> "recordFailure", provider |-> STUB, ret |-> TRUE]
    /\ provider_health[GEMINI].state = OPEN
    /\ provider_health[OPENAI].failure_count = FAILURE_THRESHOLD - 1
    /\ DOMAIN provider_health = TrackedProviders

\* C20: a snapshot (get_provider_health_status) call changes no health
\* record in any state, an Open provider whose recovery timeout has been
\* exceeded included (it stays Open), and returns exactly one entry per
\* non-fallback provider carrying that provider's current state, failure
\* count and success count.
C20_SnapshotReadOnly ==
    [][last'.op = "snapshot"
       => /\ provider_health' = provider_health
          /\ now' = now
          /\ DOMAIN last'.ret = AIProvider \ {STUB}
          /\ \A p \in AIProvider \ {STUB} :
                /\ DOMAIN last'.ret[p] = {"state", "failure_count", "success_count"}
                /\ last'.ret[p].state = provider_health[p].state
                /\ last'.ret[p].failure_count = provider_health[p].failure_count
                /\ last'.ret[p].success_count = provider_health[p].success_count
                /\ (provider_health[p].state = OPEN /\ TimeoutExceeded(provider_health[p], now))
                   => (provider_health'[p].state = OPEN /\ last'.ret[p].state = OPEN)]_vars

\* a snapshot taken while gemini was Open with its recovery timeout
\* exceeded, openai having one success on its record
C20_Witness ==
    /\ last.op = "snapshot"
    /\ provider_health[GEMINI].state = OPEN
    /\ TimeoutExceeded(provider_health[GEMINI], now)
    /\ last.ret[GEMINI] = [state |-> OPEN, failure_count |-> FAILURE_THRESHOLD, success_count |-> 0]
    /\ last.ret[OPENAI] = [state |-> CLOSED, failure_count |-> 0, success_count |-> 1]

\* ------------------------------------------------------------------------
\* Properties of the API entry point (checked under SpecApi)
\* ------------------------------------------------------------------------
\* C19: a failure recorded for a provider while serving one request through
\* the API entry point is part of the health record consulted by every
\* later request: after three consecutive requests in which a provider
\* fails, the next request arriving within the recovery timeout skips that
\* provider.  (The clock starts at 1, so while now <= RECOVERY_TIMEOUT
\* every recorded failure is less than RECOVERY_TIMEOUT old.)
C19_HealthSharedAcrossRequests ==
    [][\A p \in TrackedProviders :
          (/\ pc = "loop" /\ req.providers[req.i] = p
           /\ last'.op \in {"skip", "invoke"}
           /\ consecF[p] >= FAILURE_THRESHOLD
           /\ now <= RECOVERY_TIMEOUT)
          => (Called("skip", p) /\ calls' = calls /\ pc' = "loop")]_vars

\* ------------------------------------------------------------------------
\* Properties of concurrent calls (checked under SpecThreads)
\* ------------------------------------------------------------------------
\* C18: when calls run concurrently against the same orchestrator no update
\* of a health record is lost: k failures recorded on a fresh (Closed)
\* provider record with no success between them raise its failure count by
\* exactly k (two concurrent failures starting from the same count raise it
\* by 2) and open the breaker once the count reaches FAILURE_THRESHOLD.
C18_NoLostUpdates ==
    \A p \in TrackedProviders :
        (~InFlight(p) /\ streakF[p] >= 0)
        => /\ provider_health[p].failure_count = streakF[p]
           /\ (streakF[p] >= FAILURE_THRESHOLD => provider_health[p].state = OPEN)
           /\ (streakF[p] < FAILURE_THRESHOLD => provider_health[p].state = CLOSED)

\* ------------------------------------------------------------------------
\* The validators called directly, the way tests/test_multi_ai_orchestrator.py
\* calls them: one call on an orchestrator fresh from the fixture, on an
\* input drawn from the sets below
\* ------------------------------------------------------------------------
\* the message a rejecting check of _validate_output hands to
\* ValidationError (lines 201, 205, 208, 211, 214; the confidence message
\* without the value appended to it)
RejectionMessage(check) ==
    CASE check = "none" -> "Guidance is None or empty"
      [] check = "summary" -> "Summary is too short or empty"
      [] check = "fallback_recommendation" -> "Fallback recommendation is too short or empty"
      [] check = "talking_points" -> "No talking points provided"
      [] check = "confidence" -> "Invalid confidence value"
      [] OTHER -> ""

\* what a call _validate_output(g) ends in: the guidance it returns, or the
\* exception that leaves it.  The exception object is built by
\* ValidationError(message); when that expression itself raises TypeError
\* the message of the check is never attached to anything
ValidateOutputCall(g) ==
    LET check == ValidateOutput(g)
    IN  IF check = "ok"
        THEN [kind |-> "returned", guidance |-> g, exc |-> "none", message |-> ""]
        ELSE [kind |-> "raised", guidance |-> NoGuidance, exc |-> OutputRejectionRaises,
              message |-> IF OutputRejectionRaises = "ValidationError"
                          THEN RejectionMessage(check)
                          ELSE "No constructor defined"]

\* texts around the length limit of _sanitize_string
LongText == Txt(MAX_LENGTH + 1)
\* MAX_LENGTH - 1 characters, a space, one more character
SpaceAtLimit == Txt(MAX_LENGTH - 1) \o <<" ", "b">>

\* contexts handed to _validate_input: every combination of these fields
InputContexts ==
    [topic : {<<>>, <<" ">>, Padded(Txt(2)), Txt(TOPIC_MAX_LENGTH + 1)},
     contract_id : {Txt(1), <<" ">>},
     current_position : {<<" ", " ">>, Padded(Txt(3)), Padded(LongText), SpaceAtLimit},
     target_position : {<<" ">>, Txt(3), Padded(Txt(MAX_LENGTH))},
     fallback_position : {NoText, Some(<<" ">>), Some(Padded(Txt(5))), Some(SpaceAtLimit)}]

\* candidates handed to _validate_output: None, and every combination of
\* these fields
OutputCandidates ==
    {NoGuidance} \cup
    [present : {TRUE}, summary_len : {0, 9, 10, 20},
     fallback_recommendation : {<<>>, Padded(Txt(3)), Padded(Txt(5))},
     talking_points : {0, 1, 3}, risk_callouts : {1},
     confidence : {0 - 1, 0, 30, 100, 101},
     generated_prompt : {Txt(1)}, cached : {FALSE}, model : {GeminiModel}, latency_ms : {128}]

\* orchestrator._validate_input(c)
CallValidateInput ==
    \E c \in InputContexts :
        /\ last.op = "init"
        /\ last' = [op |-> "validate_input", provider |-> STUB, arg |-> c, ret |-> ValidateInput(c)]
        /\ UNCHANGED trackerVars
        /\ UNCHANGED reqVars
        /\ UNCHANGED threadVars
        /\ UNCHANGED clientVars
        /\ UNCHANGED schedVars

\* orchestrator._validate_output(g)
CallValidateOutput ==
    \E g \in OutputCandidates :
        /\ last.op = "init"
        /\ last' = [op |-> "validate_output", provider |-> STUB, arg |-> g, ret |-> ValidateOutputCall(g)]
        /\ UNCHANGED trackerVars
        /\ UNCHANGED reqVars
        /\ UNCHANGED threadVars
        /\ UNCHANGED clientVars
        /\ UNCHANGED schedVars

\* orchestrator._validate_input(validated), validated being the context
\* the previous _validate_input call returned
RevalidateInput ==
    /\ last.op = "validate_input"
    /\ last.ret.ok
    /\ last' = [op |-> "revalidate_input", provider |-> STUB, arg |-> last.ret.context,
                ret |-> ValidateInput(last.ret.context)]
    /\ UNCHANGED trackerVars
    /\ UNCHANGED reqVars
    /\ UNCHANGED threadVars
    /\ UNCHANGED clientVars
    /\ UNCHANGED schedVars

\* texts handed to _sanitize_string
SampleTexts ==
    {<<>>, <<" ">>, Txt(3), Padded(Txt(3)), Txt(MAX_LENGTH), Padded(Txt(MAX_LENGTH)),
     Padded(LongText), SpaceAtLimit, Padded(SpaceAtLimit)}

\* orchestrator._sanitize_string(t)
CallSanitizeString ==
    \E t \in SampleTexts :
        /\ last.op = "init"
        /\ last' = [op |-> "sanitize_string", provider |-> STUB, arg |-> t, ret |-> SanitizeString(t)]
        /\ UNCHANGED trackerVars
        /\ UNCHANGED reqVars
        /\ UNCHANGED threadVars
        /\ UNCHANGED clientVars
        /\ UNCHANGED schedVars

\* orchestrator._sanitize_string(s), s being the text the previous
\* _sanitize_string call returned
ResanitizeString ==
    /\ last.op = "sanitize_string"
    /\ last' = [op |-> "resanitize_string", provider |-> STUB, arg |-> last.ret,
                ret |-> SanitizeString(last.ret)]
    /\ UNCHANGED trackerVars
    /\ UNCHANGED reqVars
    /\ UNCHANGED threadVars
    /\ UNCHANGED clientVars
    /\ UNCHANGED schedVars

\* the fixture `orchestrator` of the tests: the next call is made on a
\* new MultiAIOrchestrator
OrchestratorFixture ==
    /\ last.op \in {"validate_input", "validate_output", "revalidate_input",
                    "sanitize_string", "resanitize_string"}
    /\ last' = [op |-> "init", provider |-> STUB, ret |-> TRUE]
    /\ UNCHANGED trackerVars
    /\ UNCHANGED reqVars
    /\ UNCHANGED threadVars
    /\ UNCHANGED clientVars
    /\ UNCHANGED schedVars

NextValidators ==
    \/ CallValidateInput
    \/ CallValidateOutput
    \/ RevalidateInput
    \/ CallSanitizeString
    \/ ResanitizeString
    \/ OrchestratorFixture

SpecValidators == Init /\ [][NextValidators]_vars

\* ------------------------------------------------------------------------
\* The fallback generator and the Gemini client (gemini.py) called
\* directly, any number of times, while failures are recorded against
\* gemini
\* ------------------------------------------------------------------------
\* variant: the prompt override is left out of the key
CacheKeyWithoutPrompt(context, prompt_override) ==
    [context |-> context, prompt_override |-> NoText, model |-> GeminiModel]

\* GeminiFlashClient._cache_key: the SHA-256 digest of the JSON of context,
\* prompt override and model, kept as the triple the digest is taken of
\* (two different triples are taken to have different digests)
CacheKey(context, prompt_override) ==
    [context |-> context, prompt_override |-> prompt_override, model |-> GeminiModel]

CacheGetAlwaysMiss(key) == NoGuidance

\* self._cache.get(key): the value stored under key, or None
CacheGet(key) ==
    IF \E e \in cache : e.key = key
    THEN (CHOOSE e \in cache : e.key = key).value
    ELSE NoGuidance

\* self._cache[key] = value
CachePut(key, value) ==
    {e \in cache : e.key # key} \cup {[key |-> key, value |-> value]}

\* dataclasses.replace(guidance, cached=flag)
Replace(guidance, flag) == [guidance EXCEPT !.cached = flag]

\* GeminiFlashClient._build_prompt: the instructions (kept as "prompt ")
\* followed by the fields of the context
BuildPrompt(context) ==
    <<"p", "r", "o", "m", "p", "t", " ">> \o context.topic \o <<"|">> \o context.current_position
    \o <<"|">> \o context.target_position \o <<"|">>
    \o (IF TruthyText(context.fallback_position) THEN context.fallback_position.text
        ELSE <<"N", "o", "n", "e">>)

\* what lines 99-104 of gemini.py produce on a cache miss: the stub guidance
\* when the client has no model (no API key), and with a model what
\* _invoke_model returns: the stub guidance again when the response holds no
\* JSON object (line 135), or the guidance read from the JSON
GeminiAnswers(context, prompt) ==
    { BuildStubGuidance(context, prompt),
      [GoodGuidance(GEMINI) EXCEPT !.generated_prompt = prompt] }

\* validated contexts handed to the fallback generator and to the client
ClientContexts ==
    { SanitizedContext(BaseContext),
      SanitizedContext([BaseContext EXCEPT !.fallback_position = Some(Txt(5))]) }

\* the call recorded in `first` for operation op with arguments args, if any
FirstOf(op, args) == {f \in first : f.op = op /\ f.args = args}

\* a returning call is remembered when it is the first with its arguments
Remember(op, args, ret) ==
    first' = IF FirstOf(op, args) = {}
             THEN first \cup {[op |-> op, args |-> args, ret |-> ret]}
             ELSE first

\* orchestrator._generate_stub_guidance(context=c, prompt_override=po)
CallGenerateStubGuidance ==
    \E c \in ClientContexts, po \in PromptOverrides :
        LET args == [context |-> c, prompt_override |-> po]
            g == GenerateStubGuidance(c, po)
        IN  /\ last' = [op |-> "stub", provider |-> STUB, args |-> args, ret |-> g]
            /\ Remember("stub", args, g)
            /\ UNCHANGED <<cache, config>>
            /\ UNCHANGED trackerVars
            /\ UNCHANGED reqVars
            /\ UNCHANGED threadVars
            /\ UNCHANGED schedVars

\* GeminiFlashClient(): the client an orchestrator builds for itself (line 60
\* of multi_ai_orchestrator.py), with GeminiConfig.from_env(): enable_cache
\* is true unless GEMINI_FLASH_ENABLE_CACHE says "false"; the cache starts
\* empty
NewGeminiClient ==
    \E flag \in BOOLEAN :
        /\ config' = [enable_cache |-> flag]
        /\ cache' = {}
        /\ first' = {f \in first : f.op # "gemini"}
        /\ last' = [op |-> "client", provider |-> GEMINI, ret |-> flag]
        /\ UNCHANGED trackerVars
        /\ UNCHANGED reqVars
        /\ UNCHANGED threadVars
        /\ UNCHANGED schedVars

\* gemini_client.generate_guidance(context=c, prompt_override=po), lines
\* 87-109: served from the cache, or generated and, with enable_cache,
\* stored
GeminiGenerateGuidance ==
    \E c \in ClientContexts, po \in PromptOverrides :
        LET args == [context |-> c, prompt_override |-> po, model |-> GeminiModel]
            cache_key == CacheKey(c, po)
            cached_guidance == CacheGet(cache_key)
            prompt == IF TruthyText(po) THEN po.text ELSE BuildPrompt(c)
        IN  /\ IF cached_guidance.present /\ config.enable_cache
               THEN /\ last' = [op |-> "gemini", provider |-> GEMINI, args |-> args,
                                ret |-> Replace(cached_guidance, TRUE), source |-> "cache"]
                    /\ Remember("gemini", args, Replace(cached_guidance, TRUE))
                    /\ UNCHANGED cache
               ELSE \/ \E guidance \in GeminiAnswers(c, prompt) :
                          /\ cache' = IF config.enable_cache
                                      THEN CachePut(cache_key, Replace(guidance, FALSE))
                                      ELSE cache
                          /\ last' = [op |-> "gemini", provider |-> GEMINI, args |-> args,
                                      ret |-> guidance, source |-> "generated"]
                          /\ Remember("gemini", args, guidance)
                    \/ \* line 125: the model call failed
                       /\ last' = [op |-> "gemini", provider |-> GEMINI, args |-> args,
                                   ret |-> NoGuidance, source |-> "GeminiServiceError"]
                       /\ UNCHANGED <<cache, first>>
            /\ UNCHANGED config
            /\ UNCHANGED trackerVars
            /\ UNCHANGED reqVars
            /\ UNCHANGED threadVars
            /\ UNCHANGED schedVars

NextClient ==
    \/ NewGeminiClient
    \/ CallGenerateStubGuidance
    \/ GeminiGenerateGuidance
    \/ RecordFailure(GEMINI)

SpecClient == Init /\ [][NextClient]_vars

\* ------------------------------------------------------------------------
\* Properties of the validators (checked under SpecValidators)
\* ------------------------------------------------------------------------
\* the first of the five checks of the output validator that candidate g
\* fails, in the order the checks are listed
FirstFailingCheck(g) ==
    IF ~g.present THEN "none"
    ELSE IF g.summary_len < 10 THEN "summary"
    ELSE IF Len(Strip(g.fallback_recommendation)) < 5 THEN "fallback_recommendation"
    ELSE IF g.talking_points < 1 THEN "talking_points"
    ELSE IF g.confidence < 0 \/ g.confidence > 100 THEN "confidence"
    ELSE "ok"

\* C21: the output validator accepts a candidate if and only if all five
\* checks pass (non-null; summary at least 10 after trim; fallback
\* recommendation at least 5 after trim; talking points non-empty;
\* confidence within [0.0, 1.0]) and returns it unchanged; otherwise it
\* fails with the (ValidationError) error of the first failing check.
C21_FirstFailingCheckReported ==
    last.op = "validate_output"
    => /\ (last.ret.kind = "returned") <=> QualityOK(last.arg)
       /\ last.ret.kind = "returned" => last.ret.guidance = last.arg
       /\ last.ret.kind # "returned"
          => /\ last.ret.kind = "raised"
             /\ last.ret.exc = "ValidationError"
             /\ last.ret.message = RejectionMessage(FirstFailingCheck(last.arg))

\* C22: the input validator rejects with InvalidInput (ValueError) every
\* context whose topic, current position or target position is empty or
\* whitespace-only, and every context it returns has topic, current
\* position and target position non-empty after trimming.
C22_BlankRequiredRejected ==
    last.op = "validate_input"
    => /\ BlankRequired(last.arg)
          => (~last.ret.ok /\ last.ret.exc = "ValueError" /\ last.ret.exc \in InvalidInput)
       /\ last.ret.ok
          => /\ Strip(last.ret.context.topic) # <<>>
             /\ Strip(last.ret.context.current_position) # <<>>
             /\ Strip(last.ret.context.target_position) # <<>>

\* a context whose target position alone is blank was rejected
C22_Witness ==
    /\ last.op = "validate_input"
    /\ last.arg.topic = Padded(Txt(2))
    /\ last.arg.current_position = Padded(Txt(3))
    /\ last.arg.target_position = <<" ">>
    /\ last.arg.contract_id = Txt(1)
    /\ last.arg.fallback_position = NoText
    /\ ~last.ret.ok
    /\ last.ret.exc = "ValueError"

\* the trimmed text cut to its first MAX_LENGTH characters
TrimmedTruncated(t) ==
    LET s == Strip(t) IN IF Len(s) <= MAX_LENGTH THEN s ELSE SubSeq(s, 1, MAX_LENGTH)

\* the free-text fields of a context the model keeps, as (input, output)
\* pairs of a call that returned; an absent optional field has no pair
TextFieldPairs(in, out) ==
    { <<in.topic, out.topic>>, <<in.contract_id, out.contract_id>>,
      <<in.current_position, out.current_position>>,
      <<in.target_position, out.target_position>> }
    \cup (IF out.fallback_position.some
          THEN {<<in.fallback_position.text, out.fallback_position.text>>} ELSE {})

NoSurroundingSpace(t) == t = <<>> \/ (~IsSpace(t[1]) /\ ~IsSpace(t[Len(t)]))

C25_StubRecommendation ==
    last.op = "stub"
    => last.ret.fallback_recommendation =
          IF last.args.context.fallback_position.some
          THEN last.args.context.fallback_position.text
          ELSE last.args.context.target_position

\* the generator ran on a context that states a fallback position different
\* from its target position
C25_Witness ==
    /\ last.op = "stub"
    /\ last.args.context.fallback_position = Some(Txt(5))
    /\ last.args.context.target_position = Txt(3)
    /\ last.ret.fallback_recommendation = Txt(5)

\* C28: with caching enabled, the first generate_guidance call of the
\* Gemini client that returns for a given (context, prompt override, model)
\* returns Guidance with cached = false, and every later call with the same
\* key returns a copy equal to the first result in every field except
\* cached, which is true, without generating anything again.
C28_CacheHit ==
    [][(config.enable_cache /\ last'.op = "gemini" /\ last'.ret.present)
       => /\ FirstOf("gemini", last'.args) = {}
             => (~last'.ret.cached /\ last'.source = "generated")
          /\ \A f \in FirstOf("gemini", last'.args) :
                /\ last'.ret = [f.ret EXCEPT !.cached = TRUE]
                /\ last'.ret.cached
                /\ last'.source = "cache"
                /\ cache' = cache]_vars

\* a model answer was served from the cache while the cache held entries
\* for other keys as well
C28_Witness ==
    /\ last.op = "gemini"
    /\ last.source = "cache"
    /\ last.ret.cached
    /\ last.ret.confidence # STUB_CONFIDENCE
    /\ \E f \in FirstOf("gemini", last.args) :
          ~f.ret.cached /\ last.ret = [f.ret EXCEPT !.cached = TRUE]
    /\ Cardinality(cache) >= 3

\* ------------------------------------------------------------------------
\* Further properties of generate_guidance (checked under Spec)
\* ------------------------------------------------------------------------
\* C26 as stated: the confidence of fallback-generated Guidance is one fixed
\* value, the same for every context, and it is strictly lower than the
\* confidence of any Guidance that generate_guidance accepts and returns
\* from a real provider.
C26_StubBelowRealProviders ==
    result.kind = "returned"
    => /\ result.provider = STUB => result.guidance.confidence = STUB_CONFIDENCE
       /\ result.provider # STUB => result.guidance.confidence > STUB_CONFIDENCE

\* C26 (amended): the confidence of fallback-generated Guidance is one
\* fixed value (0.55), the same for every context; the confidence of a
\* Guidance accepted and returned from a real provider is any value within
\* [0.0, 1.0], which can be equal to or lower than the fallback's.
C26_StubConfidenceFixed ==
    result.kind = "returned"
    => /\ result.provider = STUB => result.guidance.confidence = STUB_CONFIDENCE
       /\ result.provider # STUB
          => (result.guidance.confidence >= 0 /\ result.guidance.confidence <= 100)

\* openai returned a guidance of confidence 0.30 after gemini had failed,
\* and generate_guidance returned it
C26_Witness ==
    /\ pc = "done"
    /\ result.kind = "returned"
    /\ result.provider = OPENAI
    /\ calls = <<GEMINI, OPENAI>>
    /\ result.guidance.confidence = 30
    /\ result.guidance.confidence < STUB_CONFIDENCE

\* ------------------------------------------------------------------------
\* The set of health records (checked under SpecTracker)
\* ------------------------------------------------------------------------
\* C27: the tracker holds exactly one health record for each non-fallback
\* provider: at orchestrator construction each record is Closed with
\* failure count 0, success count 0 and no last-failure time, and no
\* sequence of isAvailable, recordSuccess, recordFailure and snapshot calls
\* adds or removes a record.
C27_OneRecordPerProvider ==
    /\ \A p \in AIProvider \ {STUB} :
          /\ p \in DOMAIN provider_health
          /\ provider_health[p] = [provider |-> p, state |-> CLOSED, failure_count |-> 0,
                                   last_failure_time |-> None, success_count |-> 0]
    /\ [](/\ DOMAIN provider_health = AIProvider \ {STUB}
          /\ \A p \in DOMAIN provider_health : provider_health[p].provider = p)
    /\ [][DOMAIN provider_health' = DOMAIN provider_health]_vars

\* every kind of call has been made: gemini is HalfOpen after a trial
\* success, openai is Open, and the last call was a snapshot
C27_Witness ==
    /\ last.op = "snapshot"
    /\ DOMAIN provider_health = {GEMINI, OPENAI}
    /\ provider_health[GEMINI].state = HALF_OPEN
    /\ provider_health[GEMINI].success_count = 1
    /\ provider_health[OPENAI].state = OPEN

\* C30: a circuit breaker never excludes a provider forever: whenever a
\* provider is Open and more than RECOVERY_TIMEOUT has passed since the
\* last failure recorded for it, the next generate_guidance request whose
\* try-order reaches that provider finds it available (moving it to
\* HalfOpen) and invokes its capability.
C30_OpenProviderRetried ==
    [][\A p \in TrackedProviders :
          (/\ pc = "loop" /\ req.providers[req.i] = p
           /\ last'.op \in {"skip", "invoke"}
           /\ provider_health[p].state = OPEN
           /\ now - provider_health[p].last_failure_time > RECOVERY_TIMEOUT)
          => /\ Called("invoke", p)
             /\ last'.ret = TRUE
             /\ calls' = Append(calls, p)
             /\ pc' = "call"
             /\ provider_health'[p].state = HALF_OPEN]_vars

\* openai, opened by three failures, is invoked again by a request that
\* reaches it more than RECOVERY_TIMEOUT after the last of them
C30_Witness ==
    /\ last = [op |-> "invoke", provider |-> OPENAI, ret |-> TRUE]
    /\ pc = "call"
    /\ provider_health[OPENAI].state = HALF_OPEN
    /\ provider_health[OPENAI].failure_count >= FAILURE_THRESHOLD
    /\ now - provider_health[OPENAI].last_failure_time > RECOVERY_TIMEOUT
    /\ calls[Len(calls)] = OPENAI

\* ------------------------------------------------------------------------
\* Further properties of concurrent calls (checked under SpecThreads)
\* ------------------------------------------------------------------------
\* the threads whose capability call for provider p is in flight after
\* being admitted as a trial
TrialsInFlight(p) ==
    {t \in Threads : /\ threads[t].op = "attempt" /\ threads[t].at = 3
                     /\ threads[t].provider = p /\ threads[t].tmp = 1}

\* C29: HalfOpen admits one trial call: after a provider moves to HalfOpen
\* isAvailable lets only one request through to it until that request's
\* outcome has been recorded; concurrent requests never have two capability
\* calls in flight for the same HalfOpen provider.
C29_OneTrialInHalfOpen ==
    \A p \in TrackedProviders :
        provider_health[p].state = HALF_OPEN => Cardinality(TrialsInFlight(p)) <= 1

\* ------------------------------------------------------------------------
\* The order of the steps of one request (checked under Spec)
\* ------------------------------------------------------------------------
\* the elements of a sequence
Range(s) == {s[k] : k \in 1..Len(s)}

\* C31: one request never races providers: within a single
\* generate_guidance call at most one capability call is in flight at any
\* time (a capability is invoked only when every call made before has ended
\* and had its outcome recorded), each provider's capability is invoked at
\* most once, and a provider is invoked only after every provider earlier
\* in the try-order was skipped or had a failure recorded.
C31_OneProviderAtATime ==
    /\ [](pc = "call" => (calls # <<>> /\ Len(outcomes) = Len(calls) - 1))
    /\ [][(calls' # calls /\ calls' # <<>>)
          => LET p == calls'[Len(calls')]
             IN  /\ calls' = Append(calls, p)
                 /\ pc = "loop"
                 /\ p = req.providers[req.i]
                 /\ p \notin Range(calls)
                 /\ Len(outcomes) = Len(calls)
                 /\ \A k \in 1..Len(calls) : outcomes[k] = <<calls[k], "failure">>
                 /\ \A j \in 1..(req.i - 1) :
                       req.providers[j] \in Range(calls)
                       => <<req.providers[j], "failure">> \in Range(outcomes)]_vars

\* openai is being called after gemini was called and had its failure
\* recorded
C31_Witness ==
    /\ pc = "call"
    /\ calls = <<GEMINI, OPENAI>>
    /\ outcomes = << <<GEMINI, "failure">> >>
    /\ last = [op |-> "invoke", provider |-> OPENAI, ret |-> TRUE]

\* C33: every capability invocation of a non-fallback provider inside
\* generate_guidance is followed, before the next provider is tried or the
\* request returns, by exactly one outcome record for that same provider:
\* recordSuccess only when the result was accepted by the output validator,
\* recordFailure otherwise; no success or failure is ever recorded for a
\* provider that was not invoked in that request.
C33_OneOutcomePerInvocation ==
    /\ [][(pc = "call" /\ pc' # "call")
          => outcomes' = Append(outcomes,
                <<req.providers[req.i],
                  IF last'.op \in {"accepted", "rejected"} /\ QualityOK(last'.ret)
                  THEN "success" ELSE "failure">>)]_vars
    /\ [](\A k \in 1..Len(outcomes) : outcomes[k][1] \in Range(calls))

\* C32: cancellation does not corrupt health state: when a provider
\* capability call is cancelled or timed out, the provider's health record
\* ends in a state reachable by recording either nothing or exactly one
\* failure for that call, the same choice being made for every cancelled
\* call; a cancelled call is never recorded as a success.
C32_CancellationConsistent ==
    /\ [](Cardinality(interrupts) <= 1)
    /\ []("success" \notin interrupts)
    /\ [][(pc = "call" /\ last'.op = "interrupted")
          => /\ provider_health' \in
                   {provider_health,
                    RecordFailureHealth(req.providers[req.i], provider_health, now)}
             /\ outcomes' \in
                   {outcomes, Append(outcomes, <<req.providers[req.i], "failure">>)}]_vars

\* the part of C32 the code keeps: an interrupted call records nothing or
\* one failure, never a success
C32_InterruptedNeverSuccess ==
    /\ []("success" \notin interrupts)
    /\ [][(pc = "call" /\ last'.op = "interrupted")
          => provider_health' \in
                {provider_health,
                 RecordFailureHealth(req.providers[req.i], provider_health, now)}]_vars

\* C34: a breaker closes only on proven recovery: under any interleaving of
\* concurrent requests, a provider's state changes from HALF_OPEN to CLOSED
\* only after SUCCESS_THRESHOLD successes have been recorded for it while it
\* was HALF_OPEN with no failure between them; a success recorded while the
\* breaker is OPEN does not count toward closing it.
C34_ClosesOnProvenRecovery ==
    [][\A p \in TrackedProviders :
          (provider_health[p].state = HALF_OPEN /\ provider_health'[p].state = CLOSED)
             => hoSucc'[p] >= SUCCESS_THRESHOLD]_vars

\* C35: in every state reachable by any sequence of isAvailable,
\* recordSuccess and recordFailure calls, each health record has
\* non-negative counts and at most one of its failure count and success
\* count is non-zero.
C35_CountsExclusive ==
    \A p \in TrackedProviders :
        /\ provider_health[p].failure_count >= 0
        /\ provider_health[p].success_count >= 0
        /\ (provider_health[p].failure_count = 0 \/ provider_health[p].success_count = 0)

\* successes recorded on a record that had failed before, and failures
\* recorded on the other record
C35_Witness ==
    /\ provider_health[GEMINI].success_count = 2
    /\ provider_health[GEMINI].failure_count = 0
    /\ provider_health[GEMINI].last_failure_time # None
    /\ provider_health[OPENAI].failure_count = 2
    /\ provider_health[OPENAI].success_count = 0
    /\ last.op = "recordSuccess"

\* C36: in every state reachable by any sequence of isAvailable,
\* recordSuccess and recordFailure calls, a record whose state is CLOSED has
\* a failure count below FAILURE_THRESHOLD, and a record whose state is OPEN
\* has a last-failure time set.
C36_StateMatchesCounts ==
    \A p \in TrackedProviders :
        /\ provider_health[p].state = CLOSED
              => provider_health[p].failure_count < FAILURE_THRESHOLD
        /\ provider_health[p].state = OPEN
              => provider_health[p].last_failure_time # None

\* one record closed with two failures, the other opened by its third
C36_Witness ==
    /\ provider_health[GEMINI].state = CLOSED
    /\ provider_health[GEMINI].failure_count = FAILURE_THRESHOLD - 1
    /\ provider_health[OPENAI].state = OPEN
    /\ provider_health[OPENAI].failure_count = FAILURE_THRESHOLD
    /\ last = [op |-> "recordFailure", provider |-> OPENAI, ret |-> TRUE]

\* the free-text fields of a context
TextFields(c) ==
    {c.topic, c.contract_id, c.current_position, c.target_position}
    \cup (IF c.fallback_position.some THEN {c.fallback_position.text} ELSE {})

C37_WitnessStable ==
    /\ last.op = "revalidate_input"
    /\ last.ret.ok
    /\ last.ret.context = last.arg
    /\ last.arg.fallback_position.some

\* C38: the primary provider client's cache changes only on a successful
\* uncached generation with caching enabled: a call that raises a provider
\* error, a call served from the cache, and any call with caching disabled
\* leave the cache unchanged, and every stored entry has cached = false.
C38_CacheFrame ==
    /\ [](\A e \in cache : e.value.present /\ ~e.value.cached)
    /\ [][(last'.op = "gemini" /\ (last'.source # "generated" \/ ~config.enable_cache))
          => cache' = cache]_vars
    /\ [][(cache' # cache /\ last'.op # "client")
          => /\ last'.op = "gemini"
             /\ last'.ret.present
             /\ ~last'.ret.cached
             /\ config.enable_cache
             /\ ~\E e \in cache : e.key = last'.args
             /\ cache' = cache \cup {[key |-> last'.args,
                                      value |-> [last'.ret EXCEPT !.cached = FALSE]]}]_vars

\* a guidance generated with caching disabled after an earlier call with the
\* same arguments, the cache still empty
C38_Witness ==
    /\ ~config.enable_cache
    /\ last.op = "gemini"
    /\ last.source = "generated"
    /\ FirstOf("gemini", last.args) # {}
    /\ \A f \in FirstOf("gemini", last.args) : f.ret # last.ret
    /\ cache = {}

\* a call that raised while the cache held an entry for its key
C38_WitnessRaised ==
    /\ config.enable_cache
    /\ last.op = "gemini"
    /\ last.source = "GeminiServiceError"
    /\ cache # {}

\* ------------------------------------------------- the alert scheduler
\* services/alerts.py, AlertSchedulerService.  start and stop are
\* coroutines; start has no await and runs in one piece, stop suspends once,
\* at `await self._task`.  The loop task suspends only in wait_for: the
\* channels of run_cycle log and return.  A task or an event is known by an
\* id; the event made by __init__ has id 0, the one made by a start has the
\* id of the task made with it.

\* the loop task with this id has been created and has not finished
Alive(k) == tasks[k].st \in {"created", "waiting"}

AliveTasks == {k \in 1..MaxTasks : Alive(k)}

\* ids nothing refers to any more
FreeIds ==
    {k \in 1..MaxTasks :
        /\ ~Alive(k)
        /\ scheduler.task # k
        /\ caller.awaiting # k
        /\ \A j \in AliveTasks : tasks[j].ev # k}

StartCreatesTaskWhileRunning(s, t) == s.enabled

\* start, lines 206-211: the two early returns
StartCreatesTask(s, t) ==
    /\ s.enabled
    /\ ~(s.task # None /\ t[s.task].st # "done")

\* AlertSchedulerService(config, dispatcher, clock) as main.py builds it,
\* config.enabled read from the environment
NewAlertScheduler ==
    \E enabled \in BOOLEAN :
        /\ caller.op = "idle"
        /\ AliveTasks = {}
        /\ scheduler' = [enabled |-> enabled, task |-> None, stop_event |-> 0, set_events |-> {}]
        /\ tasks' = [k \in 1..MaxTasks |-> NoTask]
        /\ stopped' = FALSE
        /\ last' = [op |-> "scheduler", provider |-> STUB, ret |-> enabled]
        /\ UNCHANGED caller
        /\ UNCHANGED trackerVars
        /\ UNCHANGED reqVars
        /\ UNCHANGED threadVars
        /\ UNCHANGED clientVars

\* await scheduler.start(), lines 205-219
SchedulerStart ==
    /\ caller.op = "idle"
    /\ IF StartCreatesTask(scheduler, tasks)
       THEN \E k \in FreeIds :
               /\ scheduler' = [scheduler EXCEPT !.stop_event = k, !.set_events = @ \ {k},
                                                 !.task = k]
               /\ tasks' = [tasks EXCEPT ![k] = [st |-> "created", cancel |-> FALSE,
                                                 ev |-> None, result |-> "none"]]
               /\ last' = [op |-> "start", provider |-> STUB, ret |-> k]
       ELSE /\ last' = [op |-> "start", provider |-> STUB, ret |-> None]
            /\ UNCHANGED <<scheduler, tasks>>
    /\ stopped' = FALSE
    /\ UNCHANGED caller
    /\ UNCHANGED trackerVars
    /\ UNCHANGED reqVars
    /\ UNCHANGED threadVars
    /\ UNCHANGED clientVars

\* await scheduler.stop(), lines 221-227: up to `await self._task`
SchedulerStop ==
    /\ caller.op = "idle"
    /\ IF scheduler.task = None
       THEN /\ stopped' = TRUE
            /\ last' = [op |-> "stop", provider |-> STUB, ret |-> None]
            /\ UNCHANGED <<scheduler, tasks, caller>>
       ELSE /\ scheduler' = [scheduler EXCEPT !.set_events = @ \cup {scheduler.stop_event}]
            /\ tasks' = [tasks EXCEPT ![scheduler.task].cancel =
                            IF tasks[scheduler.task].st = "done" THEN @ ELSE TRUE]
            /\ caller' = [op |-> "stop", awaiting |-> scheduler.task]
            /\ last' = [op |-> "stop", provider |-> STUB, ret |-> scheduler.task]
            /\ UNCHANGED stopped
    /\ UNCHANGED trackerVars
    /\ UNCHANGED reqVars
    /\ UNCHANGED threadVars
    /\ UNCHANGED clientVars

\* lines 227-230: the awaited task is done; its CancelledError is
\* suppressed, any other exception of it leaves stop
SchedulerStopResumes ==
    /\ caller.op = "stop"
    /\ tasks[caller.awaiting].st = "done"
    /\ IF tasks[caller.awaiting].result = "raised"
       THEN /\ last' = [op |-> "stop_raised", provider |-> STUB, ret |-> caller.awaiting]
            /\ UNCHANGED <<scheduler, stopped>>
       ELSE /\ scheduler' = [scheduler EXCEPT !.task = None]
            /\ stopped' = TRUE
            /\ last' = [op |-> "stop_returned", provider |-> STUB, ret |-> caller.awaiting]
    /\ caller' = [op |-> "idle", awaiting |-> None]
    /\ UNCHANGED tasks
    /\ UNCHANGED trackerVars
    /\ UNCHANGED reqVars
    /\ UNCHANGED threadVars
    /\ UNCHANGED clientVars

\* _run_loop, line 269 behind lines 261-267: the task ends in the given way
\* after `finally: self._task = None`
LoopEnds(k, how, op) ==
    /\ tasks' = [tasks EXCEPT ![k] = [st |-> "done", cancel |-> FALSE, ev |-> None, result |-> how]]
    /\ scheduler' = [scheduler EXCEPT !.task = None]
    /\ last' = [op |-> op, provider |-> STUB, ret |-> k]

\* _run_loop from line 262 to its next suspension: the loop ends when the
\* current stop event is set; otherwise a cycle is run, which raises or
\* leaves the task waiting on the current stop event (line 265)
LoopRound(k) ==
    IF scheduler.stop_event \in scheduler.set_events
    THEN LoopEnds(k, "returned", "loop_exit")
    ELSE \/ /\ tasks' = [tasks EXCEPT ![k] = [st |-> "waiting", cancel |-> FALSE,
                                              ev |-> scheduler.stop_event, result |-> "none"]]
            /\ last' = [op |-> "cycle", provider |-> STUB, ret |-> k]
            /\ UNCHANGED scheduler
         \/ LoopEnds(k, "raised", "cycle")

\* the event loop runs the loop task up to its next suspension
LoopStep ==
    \E k \in AliveTasks :
        /\ \/ \* cancelled before its first step: the body never runs
              /\ tasks[k].st = "created"
              /\ tasks[k].cancel
              /\ tasks' = [tasks EXCEPT ![k] = [st |-> "done", cancel |-> FALSE,
                                                ev |-> None, result |-> "cancelled"]]
              /\ last' = [op |-> "loop_cancelled", provider |-> STUB, ret |-> k]
              /\ UNCHANGED scheduler
           \/ \* first step
              /\ tasks[k].st = "created"
              /\ ~tasks[k].cancel
              /\ LoopRound(k)
           \/ \* CancelledError raised at wait_for (line 265)
              /\ tasks[k].st = "waiting"
              /\ tasks[k].cancel
              /\ LoopEnds(k, "cancelled", "loop_cancelled")
           \/ \* wait_for returns although the task was cancelled, the event
              \* having been set first (asyncio.wait_for before Python 3.12)
              /\ tasks[k].st = "waiting"
              /\ tasks[k].cancel
              /\ tasks[k].ev \in scheduler.set_events
              /\ LoopRound(k)
           \/ \* wait_for returns or times out (lines 265-267)
              /\ tasks[k].st = "waiting"
              /\ ~tasks[k].cancel
              /\ LoopRound(k)
        /\ UNCHANGED <<caller, stopped>>
        /\ UNCHANGED trackerVars
        /\ UNCHANGED reqVars
        /\ UNCHANGED threadVars
        /\ UNCHANGED clientVars

NextScheduler ==
    \/ NewAlertScheduler
    \/ SchedulerStart
    \/ SchedulerStop
    \/ SchedulerStopResumes
    \/ LoopStep

SpecScheduler == Init /\ [][NextScheduler]_vars

\* C39: alert scheduler lifecycle: under any sequence of start and stop
\* calls at most one scheduler loop task is alive at a time; start on a
\* disabled configuration or while a loop is already running creates no
\* task; after stop returns no loop task is registered and no further cycle
\* is run by the loop until the next start.
C39_SchedulerLifecycle ==
    /\ [](Cardinality(AliveTasks) <= 1)
    /\ [][(last'.op = "start" /\ (~scheduler.enabled \/ AliveTasks # {}))
          => (tasks' = tasks /\ scheduler'.task = scheduler.task)]_vars
    /\ [](stopped => (scheduler.task = None /\ AliveTasks = {} /\ last.op # "cycle"))

\* the second loop task of a scheduler has run a cycle and was stopped
C39_Witness ==
    /\ stopped
    /\ last.op = "stop_returned"
    /\ scheduler.enabled
    /\ \E k \in 1..MaxTasks : tasks[k].st = "done" /\ tasks[k].result = "cancelled"
    /\ \E k \in 1..MaxTasks : tasks[k].st = "done" /\ tasks[k].result = "returned"

\* start returned without a task while a loop was waiting
C39_WitnessRunning ==
    /\ last = [op |-> "start", provider |-> STUB, ret |-> None]
    /\ scheduler.enabled
    /\ \E k \in AliveTasks : tasks[k].st = "waiting" /\ scheduler.task = k

====
